---- MODULE Spec2Model ----
(***************************************************************************)
(* Model of casino-bot: the generic game loop BaseGame.run (with the hooks *)
(* of SlotsGame plugged in), the OCR snapshot recorder of ocr_debug.py,    *)
(* the template matcher, polling waits and numeric readers of screen.py    *)
(* and games/infinite_blackjack.py, the click helpers of actions.py, and   *)
(* the state machines of the Crazy Time, blackjack and slots runners.      *)
(***************************************************************************)
EXTENDS Integers, Sequences, FiniteSets, TLC

(***************************************************************************)
(* Bounds of the model.                                                    *)
(***************************************************************************)
MaxClock == 70        \* Tick stops advancing the wall clock here (seconds)
TickQuantum == 5      \* seconds that pass in one Tick
MaxStartClock == 35   \* latest wall-clock reading at which run() is entered

MaxTs == 2            \* last millisecond timestamp the snapshot clock reaches
MaxCap == 2           \* largest max_snapshots tried
MaxCalls == 4         \* save_ocr_snapshot calls explored
MaxIoFailures == 1    \* file operations that fail in one run
MaxReads == 2         \* read_text calls explored
MaxTextLen == 3       \* longest Tesseract output explored
MaxFrame == 5         \* side of the captured frame, in physical pixels
MaxFindCalls == 2     \* find_element calls explored on one frame
MaxTimeout == 3       \* longest timeout of a wait, in seconds
MaxRounds == 11       \* rounds counted in one session
MaxWidth == 3         \* widest logical screen tried by the scale detection
MaxScale == 3         \* largest ratio of physical to logical width tried
MaxCoord == 3         \* largest logical coordinate converted
MaxTrips == 2         \* round trips of one point
MaxPolls == 6         \* detect_state calls of one session
MaxChecks == 5        \* _check_reality_check calls of one session
MaxSimpleClock == 20  \* last second of a CrazyTimeSimpleGame session
MaxSide == 2          \* largest width and height of a clicked region
MaxTotal == 23        \* largest player total given to get_action
MaxUpcard == 13       \* largest dealer upcard given to get_action
MaxPhaseClicks == 2   \* clicks counted on one segment in a betting phase
MaxCrazyRounds == 2   \* rounds a CrazyTimeGame session logs
MaxBjRounds == 3      \* betting phases of an InfiniteBlackjackGame session
MaxSpins == 2         \* spin and autoplay clicks of a SlotsGame session

(***************************************************************************)
(* Program constants.                                                      *)
(***************************************************************************)
Cooldown == 5         \* time.sleep(5) in BaseGame.on_error
max_picks == 20       \* safety limit of SlotsGame._step_bonus_pick

None == "None"

\* session_duration of the YAML config and the duration_minutes argument
ConfigDurations == {1}
\* (Optional[float]: the empty set is None, {d} is the number d)
DurationArgs == {{}, {-1}, {0}, {1}}

\* what a call into capture / matching / OCR code can raise
Exceptions == {"CaptureError", "FileNotFoundError"}

\* the SlotState values SlotsGame.detect_state can return
SlotStates == {"set_bet", "spin", "spinning", "bonus_pick", "monitoring"}

VARIABLES
    pc,               \* position of the main thread in BaseGame.run
    running,          \* self.running
    clock,            \* time.time(), in seconds
    session_start,    \* self.session_start
    session_duration, \* self.session_duration, in minutes
    state,            \* local variable state of run()
    exc,              \* the exception bound by "except Exception as e"
    pick_iter,        \* loop index of the for loop in _step_bonus_pick
    escaped,          \* exception that propagated out of run()
    logged,           \* last <<error, context>> written by on_error
    on_stop_called,   \* on_stop() has been entered
    summary_printed,  \* _print_final_summary() has run
    calls,            \* hook calls started in the current iteration
    handled,          \* _check_reality_check returned True this iteration
    step_arg,         \* argument of the last step() call
    raised_in,        \* hook that raised in the current iteration
    detect_retry      \* detect_state raised and was not called again yet

VARIABLES
    files,            \* files in the snapshot directory
    now_ms,           \* datetime.now(), in milliseconds
    max_snapshots,    \* the max_snapshots argument in use
    n_written,        \* per label: save_ocr_snapshot calls so far
    tail,             \* per label: timestamps of the last MaxCap calls
    io_failures,      \* file operations that failed so far
    save_calls,       \* save_ocr_snapshot calls so far
    ocr_reads,        \* read_text calls so far
    last_text,        \* return value of the last read_text call
    snap_result,      \* what the last snapshot call gave its caller
    snap_caught       \* exception logged by save_ocr_snapshot's except clause

loopVars == <<pc, running, clock, session_start, session_duration, state, exc,
              pick_iter, escaped, logged, on_stop_called, summary_printed,
              calls, handled, step_arg, raised_in, detect_retry>>

ocrVars == <<files, now_ms, max_snapshots, n_written, tail, io_failures,
             save_calls, ocr_reads, last_text, snap_result, snap_caught>>

VARIABLES
    RETINA_SCALE,     \* the module global _RETINA_SCALE of screen.py
    scale_ready,      \* init_retina_scale() has run (startup is over)
    pil_region,       \* crop box of the last take_screenshot, <<>> if none
    frame,            \* size of the screenshot handed to the matcher
    template,         \* size of the template image
    scores,           \* TM_CCOEFF_NORMED score per location of this pair
    confidence,       \* the confidence argument, in hundredths
    min_distance,     \* the min_distance argument, in logical pixels
    found,            \* result of the last find_element: {} is None
    find_raised,      \* exception the last find_element call raised
    find_calls,       \* find_element calls so far
    raw_matches,      \* raw_matches of find_all_elements after its sort
    filtered,         \* filtered of find_all_elements
    found_all,        \* result of the last find_all_elements call
    all_raised,       \* exception the last find_all_elements call raised
    all_calls         \* find_all_elements has been called (0 or 1)

matchVars == <<RETINA_SCALE, scale_ready, pil_region, frame, template, scores,
               confidence, min_distance, found, find_raised, find_calls,
               raw_matches, filtered, found_all, all_raised, all_calls>>

VARIABLES
    wait_pc,          \* position in wait_for_element / wait_for_any_element
    wait_kind,        \* which of the two functions is running
    wait_now,         \* time.time() as the waits see it, in seconds
    wait_start,       \* the local variable start
    wait_timeout,     \* the timeout argument
    poll_interval,    \* the poll_interval argument
    wait_result,      \* the value returned: {} is None
    wait_raised,      \* exception that left the wait
    last_poll         \* what the capture and the matches of the last poll did

waitVars == <<wait_pc, wait_kind, wait_now, wait_start, wait_timeout,
              poll_interval, wait_result, wait_raised, last_poll>>

VARIABLES
    num_path,         \* the numeric reader that ran last
    num_text,         \* the text read_text returned to it
    num_result,       \* the value it returned: {} is None
    num_raised        \* exception that left it

numVars == <<num_path, num_text, num_result, num_raised>>

\* state of the screen layer (screen.py) and of the numeric readers
scrVars == <<matchVars, waitVars, numVars>>

VARIABLES
    runner,           \* the class of the game runner
    log_file,         \* self.log_file: {} is None
    rounds_played,    \* self.rounds_played
    starting_balance, \* self.starting_balance: {} is None
    current_balance,  \* self.current_balance: {} is None
    log_rounds,       \* the round column of the rows of the CSV log
    last_row,         \* <<round, balance, notes>> of the last row written
    summaries,        \* _print_status() calls so far
    last_op,          \* the operation of the runner that ran last
    writers           \* where last_op assigned rounds_played / current_balance

logVars == <<runner, log_file, rounds_played, starting_balance,
             current_balance, log_rounds, last_row, summaries, last_op,
             writers>>

VARIABLES
    det_input,        \* <<screen_w, pil_w, failed query>> of _get_retina_scale
    det_scale,        \* what _get_retina_scale returned: {} before the call
    pt,               \* a logical point <<x, y>>
    pt_cur,           \* the point after the conversions made so far
    pt_phys,          \* its physical pixel position, <<>> when not converted
    trips             \* round trips logical -> physical -> logical so far

coordVars == <<det_input, det_scale, pt, pt_cur, pt_phys, trips>>

VARIABLES
    dw_elements,      \* the keys of self.elements (DiamondWildGame)
    dw_pc,            \* the hook the loop calls next
    dw_state,         \* what detect_state returned last
    dw_warned,        \* keys a lookup has reported as not configured
    dw_error,         \* exception a lookup has raised to its caller
    dw_polls,         \* detect_state calls so far
    dw_polls_after    \* detect_state calls begun after a key was found missing

cfgVars == <<dw_elements, dw_pc, dw_state, dw_warned, dw_error, dw_polls,
             dw_polls_after>>

VARIABLES
    ocr_crop,         \* the crop take_screenshot(region) gives read_text
    ocr_preprocess,   \* the preprocess argument of read_text
    ocr_fed           \* the image read_text handed to Tesseract, <<>> if none

pipeVars == <<ocr_crop, ocr_preprocess, ocr_fed>>

VARIABLES
    prompt_answer,    \* the text typed at the duration prompt
    duration          \* the local variable duration of interactive_mode

mainVars == <<prompt_answer, duration>>

VARIABLES
    rc_element,       \* elements has a reality_check entry
    rc_click_target,  \* settings has a reality_check_click entry
    rc_calls,         \* _check_reality_check calls so far
    rc_ret,           \* what the last call returned: {} if it has not
    rc_clicks,        \* pyautogui.click calls the last call made
    rc_total,         \* pyautogui.click calls of all the calls so far
    rc_raised         \* exception that left the last call

rcVars == <<rc_element, rc_click_target, rc_calls, rc_ret, rc_clicks,
            rc_total, rc_raised>>

VARIABLES
    simple_pc,        \* CrazyTimeSimpleGame: the loop calls detect_state or step
    simple_now,       \* time.time(), in seconds
    simple_state,     \* self._state
    cooldown_start,   \* self._cooldown_start
    cooldown_time,    \* self.cooldown_time
    bet_1,            \* bet_segments has an entry "1"
    simple_detected,  \* the state the last detect_state call returned
    examined,         \* the last detect_state call matched on the screen
    last_bet_click,   \* time of the last click on the bet area: {} if none
    simple_raised     \* the last hook call raised into on_error

simpleVars == <<simple_pc, simple_now, simple_state, cooldown_start,
                cooldown_time, bet_1, simple_detected, examined,
                last_bet_click, simple_raised>>

VARIABLES
    click_region,     \* the region given to click_region_random: {} if none
    click_point,      \* the point it clicked
    hand,             \* the arguments given to get_action: {} if none
    action            \* what get_action returned

fnVars == <<click_region, click_point, hand, action>>

VARIABLES
    ct_pc,                   \* CrazyTimeGame: the loop calls detect_state or step
    ct_detected,             \* the state the last detect_state call returned
    ct_last_state,           \* self._last_state
    bets_placed_this_round,  \* self._bets_placed_this_round
    has_coords,              \* per segment of bets: click_x, click_y are given
    phase_clicks,            \* per segment: clicks since the last detection
                             \* that was not BETTING
    ct_rounds,               \* log_round calls so far
    ct_raised                \* the last hook call raised into on_error

ctVars == <<ct_pc, ct_detected, ct_last_state, bets_placed_this_round,
            has_coords, phase_clicks, ct_rounds, ct_raised>>

VARIABLES
    bj_pc,                  \* InfiniteBlackjackGame: detect_state or step is next
    bj_detected,            \* the state the last detect_state call returned
    bj_last_state,          \* self._last_state
    bet_placed_this_round,  \* self._bet_placed_this_round
    bj_rounds,              \* self.rounds_played
    betting_ended,          \* times the detected state has left BETTING
    bj_raised               \* the last hook call raised into on_error

bjVars == <<bj_pc, bj_detected, bj_last_state, bet_placed_this_round,
            bj_rounds, betting_ended, bj_raised>>

VARIABLES
    slot_pc,          \* SlotsGame: position in run(): detect_state, step,
                      \* on_stop, or run() has returned or raised
    slot_detected,    \* the state the last detect_state call returned
    slot_elements,    \* the optional keys the elements table has
    spin_mode,        \* self.spin_mode
    bet_is_set,       \* self.bet_is_set
    autoplay_active,  \* self.autoplay_active
    bet_matched,      \* a read of the bet amount has equalled target_bet
    spins,            \* clicks on the spin or the autoplay button so far
    stop_clicks,      \* clicks on the autoplay-stop control so far
    ended_active      \* autoplay_active when on_stop was entered

slotVars == <<slot_pc, slot_detected, slot_elements, spin_mode, bet_is_set,
              autoplay_active, bet_matched, spins, stop_clicks,
              ended_active>>

\* state of the game runners and of the action layer (actions.py)
gameVars == <<rcVars, simpleVars, fnVars, ctVars, bjVars, slotVars>>

\* state of the components outside the loop, the recorder and the screen
restVars == <<logVars, coordVars, cfgVars, pipeVars, mainVars, gameVars>>

vars == <<loopVars, ocrVars, scrVars, restVars>>

\* the components that stay idle while a game runner is exercised
coreVars == <<loopVars, ocrVars, scrVars, logVars, coordVars, cfgVars,
              pipeVars, mainVars>>
exceptRc == <<coreVars, simpleVars, fnVars, ctVars, bjVars, slotVars>>
exceptSimple == <<coreVars, rcVars, fnVars, ctVars, bjVars, slotVars>>
exceptFn == <<coreVars, rcVars, simpleVars, ctVars, bjVars, slotVars>>
exceptCt == <<coreVars, rcVars, simpleVars, fnVars, bjVars, slotVars>>
exceptBj == <<coreVars, rcVars, simpleVars, fnVars, ctVars, slotVars>>
exceptSlot == <<coreVars, rcVars, simpleVars, fnVars, ctVars, bjVars>>

Max(a, b) == IF a >= b THEN a ELSE b

(***************************************************************************)
(* Session timer.                                                          *)
(***************************************************************************)
\* the remaining time without the clamp at 0
time_remaining_unclamped ==
    (session_duration * 60) - (clock - session_start)

time_remaining ==
    LET elapsed == clock - session_start
        remaining == (session_duration * 60) - elapsed
    IN  Max(remaining, 0)

session_expired == time_remaining <= 0

(***************************************************************************)
(* The lifecycle of the loop, read off the position in run().              *)
(***************************************************************************)
LoopPcs == {"loop_head", "precheck", "detect_state", "step", "pick_loop",
            "pick_body", "check_round_result", "on_error", "kbd_break"}

InFlightPcs == {"on_start", "precheck", "detect_state", "step", "pick_body",
                "check_round_result", "on_error", "on_stop"}

LoopState ==
    CASE pc = "idle" -> "CREATED"
      [] pc \in LoopPcs \cup {"on_start"} -> "RUNNING"
      [] pc \in {"on_stop", "summary"} -> "STOPPING"
      [] OTHER -> "STOPPED"

InitLoop ==
    /\ pc = "idle"
    /\ running = FALSE
    /\ clock \in {0, MaxStartClock}
    /\ session_start = 0
    /\ session_duration \in ConfigDurations
    /\ state = None
    /\ exc = None
    /\ pick_iter = 0
    /\ escaped = None
    /\ logged = <<>>
    /\ on_stop_called = FALSE
    /\ summary_printed = FALSE
    /\ calls = <<>>
    /\ handled = FALSE
    /\ step_arg = None
    /\ raised_in = None
    /\ detect_retry = FALSE

(***************************************************************************)
(* Snapshot files.  A label is the sequence of its "_"-separated words, so *)
(* that the glob f"{label}_*_raw.png" can be evaluated as it matches.      *)
(***************************************************************************)
Labels == {<<"player">>, <<"player", "total">>}
Kinds == {"raw", "processed", "json"}
Caps == 1..MaxCap

\* Tesseract output, character by character.
OcrChars == {" ", "\n", "1", "5", "$"}
OcrTexts == UNION {[1..n -> OcrChars] : n \in 0..MaxTextLen}
Whitespace == {" ", "\n", "\t"}

Min(a, b) == IF a <= b THEN a ELSE b

\* {label}_{timestamp}_raw.png, {label}_{timestamp}_processed.png,
\* {label}_{timestamp}.json
SnapFile(l, ts, k) == [label |-> l, ts |-> ts, kind |-> k]

IsPrefix(p, q) ==
    /\ Len(p) <= Len(q)
    /\ SubSeq(q, 1, Len(p)) = p

\* out_dir.glob(f"{label}_*_raw.png")
GlobRaw(F, l) == {f \in F : f.kind = "raw" /\ IsPrefix(l, f.label)}

\* Order of sorted() on the paths matched by the glob of label l: the
\* character after "{l}_" is a digit of the timestamp for l's own files and
\* the first letter of the next word for the files of a longer label.
PathLess(f, g) ==
    \/ Len(f.label) < Len(g.label)
    \/ Len(f.label) = Len(g.label) /\ f.ts < g.ts

\* raw_files[:to_delete] of rotate_snapshots
Oldest(F, l, cap) ==
    LET raw_files == GlobRaw(F, l)
        to_delete == Cardinality(raw_files) - cap
    IN  IF Cardinality(raw_files) <= cap THEN {}
        ELSE {f \in raw_files :
                Cardinality({g \in raw_files : PathLess(g, f)}) < to_delete}

\* a rotation that unlinks the raw images only
Victims_raw_only(F, l, cap) == Oldest(F, l, cap)

\* The files rotate_snapshots tries to unlink.
Victims(F, l, cap) ==
    {f \in F : \E v \in Oldest(F, l, cap) : f.label = v.label /\ f.ts = v.ts}

\* rotate_snapshots; failed are the files whose unlink raises OSError.
Rotate(F, l, cap, failed) == F \ (Victims(F, l, cap) \ failed)

LastN(s, n) == IF Len(s) <= n THEN s ELSE SubSeq(s, Len(s) - n + 1, Len(s))

\* str.strip()
RECURSIVE LStrip(_)
LStrip(s) == IF s # <<>> /\ Head(s) \in Whitespace THEN LStrip(Tail(s)) ELSE s

RECURSIVE RStrip(_)
RStrip(s) ==
    IF s # <<>> /\ s[Len(s)] \in Whitespace
      THEN RStrip(SubSeq(s, 1, Len(s) - 1)) ELSE s

Strip(s) == RStrip(LStrip(s))

InitOcr ==
    /\ files = {}
    /\ now_ms = 0
    /\ n_written = [l \in Labels |-> 0]
    /\ tail = [l \in Labels |-> <<>>]
    /\ io_failures = 0
    /\ save_calls = 0
    /\ ocr_reads = 0
    /\ last_text = <<>>
    /\ snap_result = None
    /\ snap_caught = None

(***************************************************************************)
(* Template matching (screen.py).  A frame/template pair is represented by *)
(* the sizes of the two images and the score map cv2.matchTemplate         *)
(* computes for them; scores are in hundredths.                            *)
(***************************************************************************)
DefaultScale == 2     \* _RETINA_SCALE at import, fallback of the detection

\* pyautogui.size()[0] and the width of pyautogui.screenshot()
LogicalWidths == {0, 4, 8}
PhysicalWidths == {4, 8}

\* a detection without the clamp at 1
get_retina_scale_unclamped(screen_w, pil_w, fails) ==
    IF fails \/ screen_w = 0
      THEN DefaultScale
      ELSE pil_w \div screen_w

\* _get_retina_scale: an exception of either query, a division by zero
\* included, gives the default.
get_retina_scale(screen_w, pil_w, fails) ==
    IF fails \/ screen_w = 0
      THEN DefaultScale
      ELSE Max(pil_w \div screen_w, 1)

\* (Optional[dict]: the empty set is None, {r} is the region r)
Regions == {[x |-> 1, y |-> 2, w |-> 3, h |-> 1]}

\* pil_region of take_screenshot
PilRegion(region, scale) ==
    <<region.x * scale, region.y * scale,
      (region.x + region.w) * scale, (region.y + region.h) * scale>>

Frames == {[w |-> MaxFrame, h |-> MaxFrame]}
TemplateSides == {2, MaxFrame, MaxFrame + 1}
Templates == [w : TemplateSides, h : TemplateSides]

HighScores == {80, 90}
Confidences == {80}
MinDistances == {2}
InstanceCounts == 0..3

\* Size of the result of cv2.matchTemplate(screenshot, template, ...):
\* OpenCV swaps the two images when the template is at least as large as
\* the image in both dimensions and fails its assertion (cv2.error) when it
\* is larger in one dimension and smaller in the other; <<0, 0>> stands for
\* the failure.
ResultSize(f, t) ==
    CASE t.w <= f.w /\ t.h <= f.h -> <<f.w - t.w + 1, f.h - t.h + 1>>
      [] t.w >= f.w /\ t.h >= f.h -> <<t.w - f.w + 1, t.h - f.h + 1>>
      [] OTHER -> <<0, 0>>

\* locations <<x, y>> of a result of the given size
Grid(size) == (0..(size[1] - 1)) \X (0..(size[2] - 1))

RECURSIVE SubsetsUpTo(_, _)
SubsetsUpTo(S, k) ==
    IF k = 0 THEN {{}}
    ELSE LET T == SubsetsUpTo(S, k - 1)
         IN  T \cup {t \cup {x} : t \in T, x \in S}

\* Score maps with at most k locations that reach the high scores; every
\* other location scores 0.50.
ScoreMaps(size, k) ==
    UNION {{[p \in Grid(size) |-> IF p \in S THEN a[p] ELSE 50] :
              a \in [S -> HighScores]} : S \in SubsetsUpTo(Grid(size), k)}

\* row-major order of numpy: row (y) first, then column (x)
ScanLess(p, q) == p[2] < q[2] \/ (p[2] = q[2] /\ p[1] < q[1])

\* cv2.minMaxLoc: the maximum and its first location in scan order
MaxVal(m) == CHOOSE v \in {m[p] : p \in DOMAIN m} : \A q \in DOMAIN m : m[q] <= v

MaxLoc(m) ==
    LET max_val == MaxVal(m)
        at_max == {p \in DOMAIN m : m[p] = max_val}
    IN  CHOOSE p \in at_max : \A q \in at_max \ {p} : ScanLess(p, q)

\* a threshold test that rejects a score equal to the confidence
FindBest_strict(m, t, conf, scale) ==
    LET max_val == MaxVal(m)
        max_loc == MaxLoc(m)
    IN  IF max_val > conf
          THEN {<<(max_loc[1] + t.w \div 2) \div scale,
                  (max_loc[2] + t.h \div 2) \div scale>>}
          ELSE {}

\* find_element lines 108-127: {<<logical_x, logical_y>>} or {} for None
FindBest(m, t, conf, scale) ==
    LET max_val == MaxVal(m)
        max_loc == MaxLoc(m)
    IN  IF max_val >= conf
          THEN {<<(max_loc[1] + t.w \div 2) \div scale,
                  (max_loc[2] + t.h \div 2) \div scale>>}
          ELSE {}

\* a set of locations as the sequence in scan order
RECURSIVE ScanSeq(_)
ScanSeq(S) ==
    IF S = {} THEN <<>>
    ELSE LET p == CHOOSE a \in S : \A b \in S \ {a} : ScanLess(a, b)
         IN  <<p>> \o ScanSeq(S \ {p})

\* np.where with a strict comparison
Locations_strict(m, conf) == ScanSeq({p \in DOMAIN m : m[p] > conf})

\* np.where(result >= confidence), zipped: the locations in scan order
Locations(m, conf) == ScanSeq({p \in DOMAIN m : m[p] >= conf})

\* raw_matches: (center_x, center_y, score) per location
RawMatches(m, t, conf) ==
    LET locs == Locations(m, conf)
    IN  [i \in 1..Len(locs) |->
            [cx |-> locs[i][1] + t.w \div 2, cy |-> locs[i][2] + t.h \div 2,
             score |-> m[locs[i]]]]

\* the last of the entries with the highest score
LastMaxIndex(seq) ==
    CHOOSE i \in 1..Len(seq) :
        /\ \A j \in 1..Len(seq) : seq[j].score <= seq[i].score
        /\ \A j \in (i + 1)..Len(seq) : seq[j].score < seq[i].score

\* the first of the entries with the highest score
FirstMaxIndex(seq) ==
    CHOOSE i \in 1..Len(seq) :
        /\ \A j \in 1..Len(seq) : seq[j].score <= seq[i].score
        /\ \A j \in 1..(i - 1) : seq[j].score < seq[i].score

Remove(seq, i) == SubSeq(seq, 1, i - 1) \o SubSeq(seq, i + 1, Len(seq))

\* raw_matches.sort(key=lambda m: m[2], reverse=True): list.sort is stable,
\* entries with equal score keep their order.
RECURSIVE SortDescending(_)
SortDescending(seq) ==
    IF seq = <<>> THEN <<>>
    ELSE LET i == FirstMaxIndex(seq)
         IN  <<seq[i]>> \o SortDescending(Remove(seq, i))

Abs(n) == IF n < 0 THEN -n ELSE n

\* a suppression test that fires when either offset is small
TooClose_either(c, f, d) == Abs(c.cx - f.cx) < d \/ Abs(c.cy - f.cy) < d

\* "abs(cx - fx) < min_dist_px and abs(cy - fy) < min_dist_px"
TooClose(c, f, d) == Abs(c.cx - f.cx) < d /\ Abs(c.cy - f.cy) < d

\* the non-maximum suppression loop, lines 172-181
RECURSIVE Suppress(_, _, _)
Suppress(todo, kept, d) ==
    IF todo = <<>> THEN kept
    ELSE LET c == Head(todo)
             too_close == \E i \in 1..Len(kept) : TooClose(c, kept[i], d)
         IN  Suppress(Tail(todo), IF too_close THEN kept ELSE Append(kept, c), d)

\* lines 183-188: the kept centres in logical coordinates
ToLogical(kept, scale) ==
    [i \in 1..Len(kept) |-> <<kept[i].cx \div scale, kept[i].cy \div scale>>]

InitMatchState ==
    /\ RETINA_SCALE = DefaultScale
    /\ scale_ready = FALSE
    /\ pil_region = <<>>
    /\ found = {}
    /\ find_raised = None
    /\ find_calls = 0
    /\ raw_matches = <<>>
    /\ filtered = <<>>
    /\ found_all = <<>>
    /\ all_raised = None
    /\ all_calls = 0

\* the matcher at rest, for the specifications that do not exercise it
InitMatchIdle ==
    /\ InitMatchState
    /\ frame = [w |-> MaxFrame, h |-> MaxFrame]
    /\ template = [w |-> 2, h |-> 2]
    /\ scores = [p \in Grid(ResultSize(frame, template)) |-> 50]
    /\ confidence = 80
    /\ min_distance = 2

(***************************************************************************)
(* wait_for_element and wait_for_any_element (screen.py): polling with a   *)
(* wall-clock deadline.                                                    *)
(***************************************************************************)
Timeouts == 0..MaxTimeout
PollIntervals == {1, 2}
\* seconds one capture-and-match pass takes
PollDurations == {0, 1}

\* templates.items() of wait_for_any_element, in dict order
TemplateNames == <<"bonus", "spin">>
\* the position find_element reports when it matches
MatchPos == <<3, 4>>

\* What one find_element call of a poll does: no match, a match, or an
\* exception (_load_template cannot read the template).
FindOutcomes == {"none", "match", "FileNotFoundError"}

\* One poll of wait_for_element: find_element captures the screen itself.
ElementPolls == [capture : {"ok", "CaptureError"}, finds : [{1} -> FindOutcomes]]

\* One poll of wait_for_any_element: one capture, then find_element per
\* template.
AnyPolls ==
    [capture : {"ok", "CaptureError"},
     finds : [1..Len(TemplateNames) -> FindOutcomes]]

\* index of the first find_element call of the poll that does not return
\* None, 0 if every call returns None
FirstHit(o) ==
    IF \A i \in DOMAIN o.finds : o.finds[i] = "none" THEN 0
    ELSE CHOOSE i \in DOMAIN o.finds :
            /\ o.finds[i] # "none"
            /\ \A j \in DOMAIN o.finds : j < i => o.finds[j] = "none"

\* the exception a poll raises, None if it raises nothing
PollRaises(o) ==
    CASE o.capture # "ok" -> o.capture
      [] FirstHit(o) # 0 /\ o.finds[FirstHit(o)] # "match" -> o.finds[FirstHit(o)]
      [] OTHER -> None

\* a deadline test that still polls when the timeout has just elapsed
DeadlineOpen_inclusive(now, start, timeout) == now - start <= timeout

\* "while time.time() - start < timeout"
DeadlineOpen(now, start, timeout) == now - start < timeout

InitWaitIdle ==
    /\ wait_pc = "idle"
    /\ wait_kind = None
    /\ wait_now = 0
    /\ wait_start = 0
    /\ wait_timeout = 0
    /\ poll_interval = 1
    /\ wait_result = {}
    /\ wait_raised = None
    /\ last_poll = <<>>

(***************************************************************************)
(* The numeric readers: read_number (screen.py) and the hand totals of     *)
(* InfiniteBlackjackGame.  A text is the sequence of its characters; a     *)
(* float is held as the integer value * 10^FracDigits.                     *)
(***************************************************************************)
DigitChars == <<"0", "1", "2", "3", "4", "5", "6", "7", "8", "9">>
Digits == {DigitChars[i] : i \in 1..10}
DigitVal(c) == (CHOOSE i \in 1..10 : DigitChars[i] = c) - 1

\* InfiniteBlackjackGame._OCR_CORRECTIONS
OCR_CORRECTIONS ==
    [c \in {"&", "@", "B", "O", "o", "l", "I", "|", "S", "s", "Z", "z"} |->
        CASE c \in {"&", "@", "B"} -> "8"
          [] c \in {"O", "o"} -> "0"
          [] c \in {"l", "I", "|"} -> "1"
          [] c \in {"S", "s"} -> "5"
          [] OTHER -> "2"]

\* self._OCR_CORRECTIONS.get(ch, ch)
Corrected(ch) == IF ch \in DOMAIN OCR_CORRECTIONS THEN OCR_CORRECTIONS[ch] ELSE ch

\* characters of the texts Tesseract is taken to return to the readers
NumChars == {"0", "1", "2", "5", ".", ",", "$", " ", "O", "/"}
\* the texts the documentation of the readers names
DocumentedTexts ==
    {<<"$", "1", ",", "2", "3", "4", ".", "5", "6">>,
     <<"1", "1", "/", "2", "1">>}
NumTexts == UNION {[1..n -> NumChars] : n \in 0..MaxTextLen} \cup DocumentedTexts

\* decimal places kept by the integer that stands for a float
FracDigits == MaxTextLen

RECURSIVE Pow10(_)
Pow10(n) == IF n = 0 THEN 1 ELSE 10 * Pow10(n - 1)

\* str.replace(c, "") for every c in C
RemoveChars(s, C) == SelectSeq(s, LAMBDA c : c \notin C)

\* int() of a string of decimal digits
RECURSIVE IntOfDigits(_)
IntOfDigits(s) ==
    IF s = <<>> THEN 0
    ELSE 10 * IntOfDigits(SubSeq(s, 1, Len(s) - 1)) + DigitVal(s[Len(s)])

AllDigits(s) == \A i \in 1..Len(s) : s[i] \in Digits

\* int(s) raises ValueError
IntFails(s) == s = <<>> \/ ~AllDigits(s)

\* float(s) raises ValueError, for s made of digits and dots
FloatFails(s) ==
    \/ ~\E i \in 1..Len(s) : s[i] \in Digits
    \/ Cardinality({i \in 1..Len(s) : s[i] = "."}) > 1

\* float(s) for s made of digits and at most one dot
FloatOf(s) ==
    LET dots == {i \in 1..Len(s) : s[i] = "."}
        decimals == IF dots = {} THEN 0 ELSE Len(s) - (CHOOSE i \in dots : TRUE)
    IN  IntOfDigits(RemoveChars(s, {"."})) * Pow10(FracDigits - decimals)

\* a filter that keeps the digits only
IsNumericChar_digits_only(ch) == ch \in Digits

\* "ch.isdigit() or ch == '.'"
IsNumericChar(ch) == ch \in Digits \/ ch = "."

\* read_number, lines 243-260, on the text read_text returned: {} is None
NumberOf(text) ==
    LET cleaned == Strip(RemoveChars(text, {"$", ",", " "}))
        numeric == SelectSeq(cleaned, IsNumericChar)
    IN  IF numeric = <<>> THEN {}
        ELSE IF FloatFails(numeric) THEN {}
        ELSE {FloatOf(numeric)}

\* str.split("/")
RECURSIVE SplitSlash(_)
SplitSlash(s) ==
    IF \A i \in 1..Len(s) : s[i] # "/" THEN <<s>>
    ELSE LET k == CHOOSE i \in 1..Len(s) :
                     s[i] = "/" /\ \A j \in 1..(i - 1) : s[j] # "/"
         IN  <<SubSeq(s, 1, k - 1)>> \o SplitSlash(SubSeq(s, k + 1, Len(s)))

\* the cleaned and corrected text of the two hand-total readers
CorrectedText(text) ==
    LET cleaned == Strip(RemoveChars(text, {" "}))
    IN  [i \in 1..Len(cleaned) |-> Corrected(cleaned[i])]

\* _read_player_total from "if not text" on: {<<total, is_soft>>} or {}
PlayerTotalOf(text) ==
    LET cleaned == CorrectedText(text)
        parts == SplitSlash(cleaned)
        numeric == SelectSeq(cleaned, LAMBDA ch : ch \in Digits)
    IN  IF text = <<>> THEN {}
        ELSE IF Len(parts) = 2
          THEN IF IntFails(parts[1]) \/ IntFails(parts[2]) THEN {}
               ELSE {<<Max(IntOfDigits(parts[1]), IntOfDigits(parts[2])), TRUE>>}
        ELSE IF numeric = <<>> THEN {}
        ELSE {<<IntOfDigits(numeric), FALSE>>}

\* _read_dealer_total from "if not text" on: {upcard} or {}
DealerTotalOf(text) ==
    LET numeric == SelectSeq(CorrectedText(text), LAMBDA ch : ch \in Digits)
    IN  IF text = <<>> \/ numeric = <<>> THEN {}
        ELSE IF IntOfDigits(numeric) > 11 THEN {10}
        ELSE {IntOfDigits(numeric)}

\* the parameters of screen.read_text
ReadTextParams == {"region", "preprocess"}

\* Calling read_text with the keyword arguments kw raises TypeError when
\* one of them is not a parameter.
ReadTextRejects(kw) == ~(kw \subseteq ReadTextParams)

InitNumIdle ==
    /\ num_path = None
    /\ num_text = <<>>
    /\ num_result = {}
    /\ num_raised = None

(***************************************************************************)
(* The session log of BaseGame and the counters of a runner.               *)
(***************************************************************************)
SummaryEvery == 10    \* "self.rounds_played % 10 == 0" in log_round

Runners == {"SlotsGame", "CrazyTimeSimpleGame"}

\* what _read_balance() returns (Optional[float]: the empty set is None)
Balances == {5, 7}
BalanceReads == {{}} \cup {{b} : b \in Balances}

\* the operations of a runner that belong to the loop and not to the domain
\* behaviour of a game
LoopOps == {"_init_log_file", "_check_reality_check", "detect_state",
            "on_error"}

InitLogIdle ==
    /\ runner = "SlotsGame"
    /\ log_file = {}
    /\ rounds_played = 0
    /\ starting_balance = {}
    /\ current_balance = {}
    /\ log_rounds = <<>>
    /\ last_row = <<>>
    /\ summaries = 0
    /\ last_op = None
    /\ writers = {}

(***************************************************************************)
(* Coordinate conversion between logical points and physical pixels.       *)
(***************************************************************************)
\* pyautogui.size()[0] and the width of the full-screen capture
ScreenWidths == 0..MaxWidth
ShotWidths == 1..(MaxScale * MaxWidth)
\* the query of _get_retina_scale that raises, if one does
QueryFailures == {None, "size", "screenshot"}

Points == (0..MaxCoord) \X (0..MaxCoord)

\* region["x"] * _RETINA_SCALE of take_screenshot
PhysicalOf(p, scale) == p * scale

\* a conversion that divides by the default scale
LogicalOf_default_scale(q, scale) == q \div DefaultScale

\* center_x // _RETINA_SCALE of find_element
LogicalOf(q, scale) == q \div scale

InitCoordIdle ==
    /\ det_input = <<>>
    /\ det_scale = {}
    /\ pt = <<0, 0>>
    /\ pt_cur = <<0, 0>>
    /\ pt_phys = <<>>
    /\ trips = 0

(***************************************************************************)
(* The element table of a runner (BaseGame.get_element) and the two-state  *)
(* loop of DiamondWildGame.                                                *)
(***************************************************************************)
ElementKeys == {"dismiss_popup", "spin_button"}

\* BaseGame.get_element(key): {} is None, {key} the path of the template
get_element(key) == IF key \in dw_elements THEN {key} ELSE {}

\* the keys among those looked up that get_element found missing
Missing(keys) == {k \in keys : get_element(k) = {}}

InitCfgIdle ==
    /\ dw_elements = ElementKeys
    /\ dw_pc = None
    /\ dw_state = None
    /\ dw_warned = {}
    /\ dw_error = None
    /\ dw_polls = 0
    /\ dw_polls_after = 0

(***************************************************************************)
(* OCR preprocessing.  An image is its size, whether its mean intensity is *)
(* below 127 (dark) and the operations applied to it so far; thresholding  *)
(* and blurring are taken to leave the side of 127 the mean is on.         *)
(***************************************************************************)
OcrUpscale == 2       \* "scale = 2" of read_text, default of preprocess_for_ocr
OcrBorder == 10       \* default border of preprocess_for_ocr

PreprocessArgs == {"thresh", "blur", "none"}

\* what take_screenshot(region) hands to read_text
Crops == [w : {6}, h : {2}, dark : BOOLEAN, steps : {<<>>}]

\* one cv2 call on an image
Applied(img, step) == [img EXCEPT !.steps = Append(@, step)]

\* step (3) of both pipelines: threshold, blur or nothing
Filtered(img, preprocess) ==
    CASE preprocess = "thresh" -> Applied(img, "otsu")
      [] preprocess = "blur" -> Applied(img, "blur")
      [] OTHER -> img

\* cv2.resize(gray, None, fx=scale, fy=scale, ...)
Resized(img, scale) ==
    Applied([img EXCEPT !.w = @ * scale, !.h = @ * scale], "resize")

\* ocr_debug.preprocess_for_ocr(img_bgr, preprocess, invert, border, scale)
preprocess_for_ocr(img_bgr, preprocess, invert, border, scale) ==
    LET gray == Applied(img_bgr, "gray")
        filtered_img == Filtered(gray, preprocess)
        inverted == IF invert /\ filtered_img.dark
                      THEN Applied([filtered_img EXCEPT !.dark = FALSE],
                                   "invert")
                      ELSE filtered_img
        scaled == IF scale > 1 THEN Resized(inverted, scale) ELSE inverted
    IN  IF border > 0
          THEN Applied([scaled EXCEPT !.w = @ + 2 * border,
                                      !.h = @ + 2 * border], "border")
          ELSE scaled

\* screen.read_text, lines 208-219: the image it hands to Tesseract
ReadTextImage(screenshot, preprocess) ==
    Resized(Filtered(Applied(screenshot, "gray"), preprocess), OcrUpscale)

InitPipeIdle ==
    /\ ocr_crop = <<>>
    /\ ocr_preprocess = None
    /\ ocr_fed = <<>>

(***************************************************************************)
(* The duration prompt of main.py.  An answer is the sequence of its       *)
(* characters.                                                             *)
(***************************************************************************)
PromptAnswers == {<<>>, <<"0">>, <<"-", "1">>}

\* val.replace(".", "", 1)
RemoveFirstDot(s) ==
    IF \A i \in 1..Len(s) : s[i] # "." THEN s
    ELSE LET k == CHOOSE i \in 1..Len(s) :
                     s[i] = "." /\ \A j \in 1..(i - 1) : s[j] # "."
         IN  SubSeq(s, 1, k - 1) \o SubSeq(s, k + 1, Len(s))

\* the validate lambda of the prompt
ValidAnswer(val) ==
    \/ val = <<>>
    \/ RemoveFirstDot(val) # <<>> /\ AllDigits(RemoveFirstDot(val))

\* what interactive_get_duration returns for a valid answer without a
\* decimal point: {} is None
DurationOf(duration_str) ==
    IF Strip(duration_str) = <<>> THEN {} ELSE {IntOfDigits(duration_str)}

\* (prompt_answer: {} before the prompt, {answer} after it)
InitMainIdle ==
    /\ prompt_answer = {}
    /\ duration = {}

(***************************************************************************)
(* The action layer (actions.py) and the reality check of BaseGame.        *)
(***************************************************************************)
MatchResults == {"none", "found", "raise"}

\* click_element(template_path, ...): ret is the value returned, clicks the
\* pyautogui.click calls made; pos is what its find_element call gives.
click_element(pos) ==
    [ret |-> pos = "found", clicks |-> IF pos = "found" THEN 1 ELSE 0,
     raised |-> pos = "raise"]

\* _check_reality_check: seen is what find_element gives on the screenshot
\* the method takes, pos what the find_element call of click_element gives.
check_reality_check(element, seen, click_target, pos) ==
    IF ~element \/ seen = "none"
      THEN [ret |-> FALSE, clicks |-> 0, raised |-> FALSE]
    ELSE IF seen = "raise" THEN [ret |-> FALSE, clicks |-> 0, raised |-> TRUE]
    ELSE IF click_target THEN [ret |-> TRUE, clicks |-> 1, raised |-> FALSE]
    ELSE [ret |-> TRUE, clicks |-> click_element(pos).clicks,
          raised |-> click_element(pos).raised]

InitRcIdle ==
    /\ rc_element = FALSE
    /\ rc_click_target = FALSE
    /\ rc_calls = 0
    /\ rc_ret = {}
    /\ rc_clicks = 0
    /\ rc_total = 0
    /\ rc_raised = FALSE

(***************************************************************************)
(* CrazyTimeSimpleGame (games/crazy_time_simple.py).                       *)
(***************************************************************************)
\* settings.cooldown and settings.poll_interval of the configuration
CooldownTimes == {3, 8}
SimplePollIntervals == {2}

InitSimpleIdle ==
    /\ simple_pc = "idle"
    /\ simple_now = 0
    /\ simple_state = "waiting"
    /\ cooldown_start = 0
    /\ cooldown_time = 0
    /\ bet_1 = FALSE
    /\ simple_detected = "waiting"
    /\ examined = FALSE
    /\ last_bet_click = {}
    /\ simple_raised = FALSE

(***************************************************************************)
(* click_region_random of actions.py.                                      *)
(***************************************************************************)
\* Region: {x, y, w, h} in logical coordinates, non-negative, w > 0, h > 0
ClickRegions == [x : 0..1, y : 0..1, w : 1..MaxSide, h : 1..MaxSide]

\* random.randint(a, b): both ends can be drawn
randint(a, b) == a..b

\* the points click_region_random(region) can hand to pyautogui.click
click_region_random(region) ==
    randint(region.x, region.x + region.w)
        \X randint(region.y, region.y + region.h)

(***************************************************************************)
(* The basic strategy of games/infinite_blackjack.py.  A row lists the     *)
(* codes for the dealer upcards 2..11, as the dictionaries do.             *)
(***************************************************************************)
BasicRows ==
    << <<"H", "H", "H", "H", "H", "H", "H", "H", "H", "H">>,   \* 4
       <<"H", "H", "H", "H", "H", "H", "H", "H", "H", "H">>,   \* 5
       <<"H", "H", "H", "H", "H", "H", "H", "H", "H", "H">>,   \* 6
       <<"H", "H", "H", "H", "H", "H", "H", "H", "H", "H">>,   \* 7
       <<"H", "H", "H", "H", "H", "H", "H", "H", "H", "H">>,   \* 8
       <<"H", "H", "D", "D", "D", "H", "H", "H", "H", "H">>,   \* 9
       <<"D", "D", "D", "D", "D", "D", "D", "D", "H", "H">>,   \* 10
       <<"D", "D", "D", "D", "D", "D", "D", "D", "D", "D">>,   \* 11
       <<"H", "H", "S", "S", "S", "H", "H", "H", "H", "H">>,   \* 12
       <<"S", "S", "S", "S", "S", "H", "H", "H", "H", "H">>,   \* 13
       <<"S", "S", "S", "S", "S", "H", "H", "H", "H", "H">>,   \* 14
       <<"S", "S", "S", "S", "S", "H", "H", "H", "H", "H">>,   \* 15
       <<"S", "S", "S", "S", "S", "H", "H", "H", "H", "H">>,   \* 16
       <<"S", "S", "S", "S", "S", "S", "S", "S", "S", "S">>,   \* 17
       <<"S", "S", "S", "S", "S", "S", "S", "S", "S", "S">>,   \* 18
       <<"S", "S", "S", "S", "S", "S", "S", "S", "S", "S">>,   \* 19
       <<"S", "S", "S", "S", "S", "S", "S", "S", "S", "S">> >> \* 20

SoftRows ==
    << <<"H", "H", "H", "D", "D", "H", "H", "H", "H", "H">>,   \* 13
       <<"H", "H", "H", "D", "D", "H", "H", "H", "H", "H">>,   \* 14
       <<"H", "H", "D", "D", "D", "H", "H", "H", "H", "H">>,   \* 15
       <<"H", "H", "D", "D", "D", "H", "H", "H", "H", "H">>,   \* 16
       <<"H", "D", "D", "D", "D", "H", "H", "H", "H", "H">>,   \* 17
       <<"D", "D", "D", "D", "D", "S", "S", "H", "H", "H">>,   \* 18
       <<"S", "S", "S", "S", "D", "S", "S", "S", "S", "S">>,   \* 19
       <<"S", "S", "S", "S", "S", "S", "S", "S", "S", "S">> >> \* 20

BASIC_STRATEGY == [t \in 4..20 |-> [d \in 2..11 |-> BasicRows[t - 3][d - 1]]]
SOFT_STRATEGY == [t \in 13..20 |-> [d \in 2..11 |-> SoftRows[t - 12][d - 1]]]

\* the if / elif chain that turns a code of the tables into an action
ActionOf(code) ==
    CASE code = "H" -> "hit"
      [] code = "S" -> "stand"
      [] code = "D" -> "double"
      [] OTHER -> "hit"

\* row.get(dealer_upcard, "H")
RowGet(row, dealer_upcard) ==
    IF dealer_upcard \in DOMAIN row THEN row[dealer_upcard] ELSE "H"

get_action(player_total, dealer_upcard, is_soft) ==
    LET upcard == Max(2, Min(11, dealer_upcard)) IN
    IF is_soft /\ player_total >= 21 THEN "stand"
    ELSE IF is_soft /\ player_total \in DOMAIN SOFT_STRATEGY
      THEN ActionOf(RowGet(SOFT_STRATEGY[player_total], upcard))
    ELSE IF player_total <= 4 THEN "hit"
    ELSE IF player_total >= 17 THEN "stand"
    ELSE IF player_total \notin DOMAIN BASIC_STRATEGY
      THEN IF player_total < 17 THEN "hit" ELSE "stand"
    ELSE ActionOf(RowGet(BASIC_STRATEGY[player_total], upcard))

\* the arguments tried: totals and upcards inside and outside the tables
Hands ==
    [player_total : (-1)..MaxTotal, dealer_upcard : (-1)..MaxUpcard,
     is_soft : BOOLEAN]

InitFnIdle ==
    /\ click_region = {}
    /\ click_point = {}
    /\ hand = {}
    /\ action = {}

(***************************************************************************)
(* CrazyTimeGame (games/crazy_time.py).                                    *)
(***************************************************************************)
\* the "segment" entries of the bets list of the configuration
Segments == {"1", "2"}

\* CrazyTimeState
CrazyTimeStates == {"idle", "betting", "bonus_cash_hunt"}

\* random.shuffle(bets_shuffled): the orders the for loop can take
Shuffles ==
    {order \in [1..Cardinality(Segments) -> Segments] :
        \A i, j \in DOMAIN order : order[i] = order[j] => i = j}

\* What the click of each bet does: click_position raises or clicks,
\* click_element also finds nothing.
BetOutcomes(coords) ==
    {o \in [Segments -> MatchResults] :
        \A seg \in Segments : coords[seg] => o[seg] # "none"}

\* the for loop of _step_betting is left by an exception
LoopRaised(order, o) == \E i \in DOMAIN order : o[order[i]] = "raise"

\* the segments the for loop clicked before it ended
Clicked(order, o) ==
    {order[i] : i \in {k \in DOMAIN order :
                          /\ o[order[k]] = "found"
                          /\ \A j \in 1..(k - 1) : o[order[j]] # "raise"}}

InitCtIdle ==
    /\ ct_pc = "idle"
    /\ ct_detected = "idle"
    /\ ct_last_state = "idle"
    /\ bets_placed_this_round = FALSE
    /\ has_coords = [seg \in Segments |-> TRUE]
    /\ phase_clicks = [seg \in Segments |-> 0]
    /\ ct_rounds = 0
    /\ ct_raised = FALSE

(***************************************************************************)
(* InfiniteBlackjackGame (games/infinite_blackjack.py).                    *)
(***************************************************************************)
\* InfiniteBlackjackState
BlackjackStates == {"waiting", "betting", "decision"}

InitBjIdle ==
    /\ bj_pc = "idle"
    /\ bj_detected = "waiting"
    /\ bj_last_state = "waiting"
    /\ bet_placed_this_round = FALSE
    /\ bj_rounds = 0
    /\ betting_ended = 0
    /\ bj_raised = FALSE

(***************************************************************************)
(* SlotsGame (games/slots.py): bet setting, spinning, autoplay, teardown.  *)
(***************************************************************************)
\* keys of the elements table a configuration can leave out
OptionalElements == {"autoplay_button", "autoplay_stop"}

\* What the screenshot of detect_state shows first, in the order the code
\* tests it: a bonus indicator, the autoplay-active indicator, the autoplay
\* button, the spin button, none of them; or the capture raises.
SlotScreens ==
    {"bonus", "autoplay_active", "autoplay_button", "spin_button",
     "nothing", "raise"}

\* _detect_manual_state: the state returned
detect_manual_state(screen, bet_set) ==
    IF screen = "spin_button"
      THEN IF ~bet_set THEN "set_bet" ELSE "spin"
      ELSE "spinning"

\* _detect_autoplay_state: the state returned and the new autoplay_active
detect_autoplay_state(screen, bet_set, active, elements) ==
    IF screen = "autoplay_active"
      THEN [state |-> "monitoring", active |-> TRUE]
    ELSE IF screen = "autoplay_button" /\ "autoplay_button" \in elements
      THEN [state |-> IF ~bet_set THEN "set_bet"
                      ELSE IF ~active THEN "start_autoplay"
                      ELSE "resume_autoplay",
            active |-> active]
    ELSE IF screen = "spin_button"
      THEN IF ~bet_set THEN [state |-> "set_bet", active |-> active]
           ELSE [state |-> "resume_autoplay", active |-> FALSE]
    ELSE [state |-> "monitoring", active |-> active]

InitSlotIdle ==
    /\ slot_pc = "idle"
    /\ slot_detected = "unknown"
    /\ slot_elements = {}
    /\ spin_mode = "manual"
    /\ bet_is_set = FALSE
    /\ autoplay_active = FALSE
    /\ bet_matched = FALSE
    /\ spins = 0
    /\ stop_clicks = 0
    /\ ended_active = FALSE

InitGameIdle ==
    /\ InitRcIdle
    /\ InitSimpleIdle
    /\ InitFnIdle
    /\ InitCtIdle
    /\ InitBjIdle
    /\ InitSlotIdle

InitRestIdle ==
    /\ InitGameIdle
    /\ InitLogIdle
    /\ InitCoordIdle
    /\ InitCfgIdle
    /\ InitPipeIdle
    /\ InitMainIdle

InitScreenIdle == InitMatchIdle /\ InitWaitIdle /\ InitNumIdle

Init ==
    /\ InitLoop
    /\ InitOcr
    /\ max_snapshots = MaxCap
    /\ InitScreenIdle
    /\ InitRestIdle

\* An exception caught by "except Exception as e" inside the loop.
Caught(hook, e) ==
    /\ pc' = "on_error"
    /\ exc' = e
    /\ raised_in' = hook

\* run(duration_minutes = d): lines 280-295, up to the call of on_start.
Run(d) ==
    /\ pc = "idle"
    /\ session_duration' = IF d # {} THEN CHOOSE m \in d : TRUE
                                      ELSE session_duration
    /\ session_start' = clock
    /\ running' = TRUE
    /\ pc' = "on_start"
    /\ UNCHANGED <<ocrVars, scrVars, restVars>>
    /\ UNCHANGED <<clock, escaped, state, exc, pick_iter, logged, on_stop_called,
                   summary_printed, calls, handled, step_arg, raised_in,
                   detect_retry>>

\* run() called with any duration argument
RunStart == \E d \in DurationArgs : Run(d)

\* SlotsGame.on_start, called outside the try block.
OnStart ==
    /\ pc = "on_start"
    /\ \E o \in {"ok"} \cup Exceptions :
        IF o = "ok"
          THEN pc' = "loop_head" /\ escaped' = escaped
          ELSE pc' = "raised" /\ escaped' = o
    /\ UNCHANGED <<ocrVars, scrVars, restVars>>
    /\ UNCHANGED <<running, clock, session_start, session_duration, state, exc,
                   pick_iter, logged, on_stop_called, summary_printed, calls,
                   handled, step_arg, raised_in, detect_retry>>

\* "while self.running and not self.session_expired": the boundary check,
\* followed by the call of _check_reality_check when it passes.
LoopHead ==
    /\ pc = "loop_head"
    /\ IF running /\ ~session_expired
         THEN /\ pc' = "precheck"
              /\ calls' = <<"precheck">>
              /\ handled' = FALSE
              /\ raised_in' = None
         ELSE /\ pc' = "on_stop"
              /\ UNCHANGED <<calls, handled, raised_in>>
    /\ UNCHANGED <<ocrVars, scrVars, restVars>>
    /\ UNCHANGED <<running, clock, session_start, session_duration, state, exc,
                   pick_iter, escaped, logged, on_stop_called, summary_printed,
                   step_arg, detect_retry>>

\* the pre-check whose True result does not skip the rest of the iteration
PreCheck_no_skip ==
    /\ pc = "precheck"
    /\ \E o \in {"handled", "clear", "KeyboardInterrupt"} \cup Exceptions :
        CASE o \in {"handled", "clear"} ->
               /\ pc' = "detect_state"
               /\ handled' = (o = "handled")
               /\ calls' = Append(calls, "detect_state")
               /\ UNCHANGED <<exc, raised_in>>
          [] o = "KeyboardInterrupt" ->
               /\ pc' = "kbd_break"
               /\ UNCHANGED <<exc, raised_in, handled, calls>>
          [] OTHER ->
               /\ Caught("precheck", o)
               /\ UNCHANGED <<handled, calls>>
    /\ UNCHANGED <<ocrVars, scrVars, restVars>>
    /\ UNCHANGED <<running, clock, session_start, session_duration, state,
                   pick_iter, escaped, logged, on_stop_called, summary_printed,
                   step_arg, detect_retry>>

\* _check_reality_check returns or raises.
PreCheck ==
    /\ pc = "precheck"
    /\ \E o \in {"handled", "clear", "KeyboardInterrupt"} \cup Exceptions :
        CASE o = "handled" ->
               /\ pc' = "loop_head"
               /\ handled' = TRUE
               /\ UNCHANGED <<exc, raised_in, calls>>
          [] o = "clear" ->
               /\ pc' = "detect_state"
               /\ calls' = Append(calls, "detect_state")
               /\ UNCHANGED <<exc, raised_in, handled>>
          [] o = "KeyboardInterrupt" ->
               /\ pc' = "kbd_break"
               /\ UNCHANGED <<exc, raised_in, handled, calls>>
          [] OTHER ->
               /\ Caught("precheck", o)
               /\ UNCHANGED <<handled, calls>>
    /\ UNCHANGED <<ocrVars, scrVars, restVars>>
    /\ UNCHANGED <<running, clock, session_start, session_duration, state,
                   pick_iter, escaped, logged, on_stop_called, summary_printed,
                   step_arg, detect_retry>>

\* detect_state returns a state tag or raises; on return step(state) is called.
DetectState ==
    /\ pc = "detect_state"
    /\ \E o \in SlotStates \cup {"KeyboardInterrupt"} \cup Exceptions :
        CASE o \in SlotStates ->
               /\ state' = o
               /\ pc' = "step"
               /\ calls' = Append(calls, "step")
               /\ step_arg' = o
               /\ detect_retry' = FALSE
               /\ UNCHANGED <<exc, raised_in>>
          [] o = "KeyboardInterrupt" ->
               /\ pc' = "kbd_break"
               /\ detect_retry' = FALSE
               /\ UNCHANGED <<state, calls, step_arg, exc, raised_in>>
          [] OTHER ->
               /\ Caught("detect_state", o)
               /\ detect_retry' = TRUE
               /\ UNCHANGED <<state, calls, step_arg>>
    /\ UNCHANGED <<ocrVars, scrVars, restVars>>
    /\ UNCHANGED <<running, clock, session_start, session_duration, pick_iter,
                   escaped, logged, on_stop_called, summary_printed, handled>>

\* SlotsGame.step for every handler but _step_bonus_pick: the handler
\* returns or raises.
Step ==
    /\ pc = "step"
    /\ state # "bonus_pick"
    /\ \E o \in {"ok", "KeyboardInterrupt"} \cup Exceptions :
        CASE o = "ok" -> pc' = "loop_head" /\ UNCHANGED <<exc, raised_in>>
          [] o = "KeyboardInterrupt" ->
               pc' = "kbd_break" /\ UNCHANGED <<exc, raised_in>>
          [] OTHER -> Caught("step", o)
    /\ UNCHANGED <<ocrVars, scrVars, restVars>>
    /\ UNCHANGED <<running, clock, session_start, session_duration, state,
                   pick_iter, escaped, logged, on_stop_called, summary_printed,
                   calls, handled, step_arg, detect_retry>>

\* SlotsGame._step_bonus_pick up to the for loop.
StepBonusPick ==
    /\ pc = "step"
    /\ state = "bonus_pick"
    /\ pc' = "pick_loop"
    /\ pick_iter' = 0
    /\ UNCHANGED <<ocrVars, scrVars, restVars>>
    /\ UNCHANGED <<running, clock, session_start, session_duration, state, exc,
                   escaped, logged, on_stop_called, summary_printed, calls,
                   handled, step_arg, raised_in, detect_retry>>

\* "for _ in range(max_picks): if not self.running: break"
PickLoop ==
    /\ pc = "pick_loop"
    /\ IF pick_iter >= max_picks \/ ~running
         THEN pc' = "check_round_result"
         ELSE pc' = "pick_body"
    /\ UNCHANGED <<ocrVars, scrVars, restVars>>
    /\ UNCHANGED <<running, clock, session_start, session_duration, state, exc,
                   pick_iter, escaped, logged, on_stop_called, summary_printed,
                   calls, handled, step_arg, raised_in, detect_retry>>

\* One pass of the body of the pick loop: the bonus is over (collect
\* indicator or normal UI seen), or an item is picked / nothing is visible.
PickBody ==
    /\ pc = "pick_body"
    /\ \E o \in {"over", "next", "KeyboardInterrupt"} \cup Exceptions :
        CASE o = "over" ->
               /\ pc' = "check_round_result"
               /\ UNCHANGED <<pick_iter, exc, raised_in>>
          [] o = "next" ->
               /\ pc' = "pick_loop"
               /\ pick_iter' = pick_iter + 1
               /\ UNCHANGED <<exc, raised_in>>
          [] o = "KeyboardInterrupt" ->
               /\ pc' = "kbd_break"
               /\ UNCHANGED <<pick_iter, exc, raised_in>>
          [] OTHER ->
               /\ Caught("step", o)
               /\ UNCHANGED pick_iter
    /\ UNCHANGED <<ocrVars, scrVars, restVars>>
    /\ UNCHANGED <<running, clock, session_start, session_duration, state,
                   escaped, logged, on_stop_called, summary_printed, calls,
                   handled, step_arg, detect_retry>>

\* SlotsGame._check_round_result at the end of the bonus handler.
CheckRoundResult ==
    /\ pc = "check_round_result"
    /\ \E o \in {"ok", "KeyboardInterrupt"} \cup Exceptions :
        CASE o = "ok" -> pc' = "loop_head" /\ UNCHANGED <<exc, raised_in>>
          [] o = "KeyboardInterrupt" ->
               pc' = "kbd_break" /\ UNCHANGED <<exc, raised_in>>
          [] OTHER -> Caught("step", o)
    /\ UNCHANGED <<ocrVars, scrVars, restVars>>
    /\ UNCHANGED <<running, clock, session_start, session_duration, state,
                   pick_iter, escaped, logged, on_stop_called, summary_printed,
                   calls, handled, step_arg, detect_retry>>

\* "except KeyboardInterrupt: ... break"
KeyboardInterruptBreak ==
    /\ pc = "kbd_break"
    /\ pc' = "on_stop"
    /\ UNCHANGED <<ocrVars, scrVars, restVars>>
    /\ UNCHANGED <<running, clock, session_start, session_duration, state, exc,
                   pick_iter, escaped, logged, on_stop_called, summary_printed,
                   calls, handled, step_arg, raised_in, detect_retry>>

\* the except clause that leaves the loop after any error
OnError_exits ==
    /\ pc = "on_error"
    /\ logged' = <<exc, "game loop">>
    /\ clock' = clock + Cooldown
    /\ exc' = None
    /\ pc' = "on_stop"
    /\ UNCHANGED <<ocrVars, scrVars, restVars>>
    /\ UNCHANGED <<running, session_start, session_duration, state, pick_iter,
                   escaped, on_stop_called, summary_printed, calls, handled,
                   step_arg, raised_in, detect_retry>>

\* "except Exception as e: self.on_error(e, context="game loop");
\*  if not self.running: break"
OnError ==
    /\ pc = "on_error"
    /\ logged' = <<exc, "game loop">>
    /\ clock' = clock + Cooldown
    /\ exc' = None
    /\ pc' = IF ~running THEN "on_stop" ELSE "loop_head"
    /\ UNCHANGED <<ocrVars, scrVars, restVars>>
    /\ UNCHANGED <<running, session_start, session_duration, state, pick_iter,
                   escaped, on_stop_called, summary_printed, calls, handled,
                   step_arg, raised_in, detect_retry>>

\* "finally: self.on_stop()" with SlotsGame.on_stop.
OnStop ==
    /\ pc = "on_stop"
    /\ on_stop_called' = TRUE
    /\ \E o \in {"ok"} \cup Exceptions :
        IF o = "ok"
          THEN pc' = "summary" /\ escaped' = escaped
          ELSE pc' = "raised" /\ escaped' = o
    /\ UNCHANGED <<ocrVars, scrVars, restVars>>
    /\ UNCHANGED <<running, clock, session_start, session_duration, state, exc,
                   pick_iter, logged, summary_printed, calls, handled,
                   step_arg, raised_in, detect_retry>>

\* "self._print_final_summary()", then run() returns.
FinalSummary ==
    /\ pc = "summary"
    /\ summary_printed' = TRUE
    /\ pc' = "returned"
    /\ UNCHANGED <<ocrVars, scrVars, restVars>>
    /\ UNCHANGED <<running, clock, session_start, session_duration, state, exc,
                   pick_iter, escaped, logged, on_stop_called, calls, handled,
                   step_arg, raised_in, detect_retry>>

\* a handler that aborts the call in flight instead of only setting the flag
Sigint_preempts ==
    /\ pc \in LoopPcs \cup {"on_start", "on_stop", "summary"}
    /\ running' = FALSE
    /\ pc' = IF pc \in LoopPcs THEN "on_stop" ELSE pc
    /\ UNCHANGED <<ocrVars, scrVars, restVars>>
    /\ UNCHANGED <<clock, session_start, session_duration, state, exc,
                   pick_iter, escaped, logged, on_stop_called, summary_printed,
                   calls, handled, step_arg, raised_in, detect_retry>>

\* handle_sigint: Ctrl+C while run() is executing.
Sigint ==
    /\ pc \in LoopPcs \cup {"on_start", "on_stop", "summary"}
    /\ running' = FALSE
    /\ UNCHANGED <<ocrVars, scrVars, restVars>>
    /\ UNCHANGED <<pc, clock, session_start, session_duration, state, exc,
                   pick_iter, escaped, logged, on_stop_called, summary_printed,
                   calls, handled, step_arg, raised_in, detect_retry>>

\* Wall-clock time passes while a hook, a sleep or an I/O call is in flight.
Tick ==
    /\ pc \in InFlightPcs
    /\ clock < MaxClock
    /\ clock' = clock + TickQuantum
    /\ UNCHANGED <<ocrVars, scrVars, restVars>>
    /\ UNCHANGED <<pc, running, session_start, session_duration, state, exc,
                   pick_iter, escaped, logged, on_stop_called, summary_printed,
                   calls, handled, step_arg, raised_in, detect_retry>>

Next ==
    \/ RunStart
    \/ OnStart
    \/ LoopHead
    \/ PreCheck
    \/ DetectState
    \/ Step
    \/ StepBonusPick
    \/ PickLoop
    \/ PickBody
    \/ CheckRoundResult
    \/ KeyboardInterruptBreak
    \/ OnError
    \/ OnStop
    \/ FinalSummary
    \/ Sigint
    \/ Tick


Spec == Init /\ [][Next]_vars

(***************************************************************************)
(* OCR reads and the snapshot recorder (screen.py, ocr_debug.py).          *)
(***************************************************************************)
\* save_ocr_snapshot reaches its rotate_snapshots call: nothing raised.
ReachesRotate(w) ==
    w.mkdir /\ w.raw # "raise" /\ w.processed # "raise" /\ w.meta = "ok"

\* The directory after the three writes of save_ocr_snapshot.
Written(F, l, ts, w) ==
    LET F1 == IF w.raw = "ok" THEN F \cup {SnapFile(l, ts, "raw")} ELSE F
        F2 == IF w.raw # "raise" /\ w.processed = "ok"
                THEN F1 \cup {SnapFile(l, ts, "processed")} ELSE F1
        F3 == IF w.raw # "raise" /\ w.processed # "raise" /\ w.meta = "ok"
                THEN F2 \cup {SnapFile(l, ts, "json")} ELSE F2
    IN  IF w.mkdir THEN F3 ELSE F

\* The body of save_ocr_snapshot: the writes, then the rotation.
SaveStep(F, l, ts, w, failed) ==
    IF ReachesRotate(w)
      THEN Rotate(Written(F, l, ts, w), l, max_snapshots, failed)
      ELSE Written(F, l, ts, w)

\* The file operations of one save_ocr_snapshot call that failed.
SaveFailures(w, failed) ==
    LET mk == IF w.mkdir THEN 0 ELSE 1
        r  == IF w.mkdir /\ w.raw # "ok" THEN 1 ELSE 0
        p  == IF w.mkdir /\ w.raw # "raise" /\ w.processed # "ok" THEN 1 ELSE 0
        m  == IF w.mkdir /\ w.raw # "raise" /\ w.processed # "raise"
                 /\ w.meta # "ok" THEN 1 ELSE 0
    IN  mk + r + p + m + Cardinality(failed)

\* Outcomes of out_dir.mkdir, the two cv2.imwrite calls (written, returned
\* False, raised) and meta_path.write_text; a step that is not reached
\* after an earlier exception is listed as "ok".
WriteOutcomes ==
    {w \in [mkdir : BOOLEAN, raw : {"ok", "false", "raise"},
            processed : {"ok", "false", "raise"}, meta : {"ok", "raise"}] :
        /\ (~w.mkdir => w.raw = "ok")
        /\ (w.raw = "raise" => w.processed = "ok")
        /\ (w.processed = "raise" => w.meta = "ok")}

AllOk == [mkdir |-> TRUE, raw |-> "ok", processed |-> "ok", meta |-> "ok"]

\* The exception raised inside the try block of save_ocr_snapshot, if any:
\* mkdir, write_text and the glob of rotate_snapshots raise OSError, imwrite
\* raises cv2.error.
SaveRaised(w, listed) ==
    CASE ~w.mkdir -> "OSError"
      [] w.raw = "raise" -> "cv2.error"
      [] w.processed = "raise" -> "cv2.error"
      [] w.meta = "raise" -> "OSError"
      [] ~listed -> "OSError"
      [] OTHER -> None

\* an except clause that names OSError only
SaveCatches_OSError_only(e) == e = "OSError"

\* "except Exception as e" of save_ocr_snapshot
SaveCatches(e) == e \in {"OSError", "cv2.error"}

\* What a save_ocr_snapshot call in which e was raised gives its caller.
SaveResult(e) == IF e # None /\ ~SaveCatches(e) THEN e ELSE "returned"

\* save_ocr_snapshot(raw_img, processed_img, label, max_snapshots=...);
\* listed: the glob of its rotate_snapshots call succeeds.
SaveOcrSnapshot ==
    /\ save_calls < MaxCalls
    /\ \E l \in Labels,
          w \in IF io_failures < MaxIoFailures THEN WriteOutcomes ELSE {AllOk} :
        \E listed \in IF io_failures < MaxIoFailures /\ ReachesRotate(w)
                         THEN BOOLEAN ELSE {TRUE} :
          \E failed \in IF io_failures < MaxIoFailures /\ ReachesRotate(w)
                              /\ listed
                           THEN SUBSET Victims(Written(files, l, now_ms, w),
                                               l, max_snapshots)
                           ELSE {{}} :
            LET lf == IF listed THEN 0 ELSE 1 IN
            /\ SaveFailures(w, failed) + lf <= MaxIoFailures - io_failures
            /\ files' = IF listed THEN SaveStep(files, l, now_ms, w, failed)
                                  ELSE Written(files, l, now_ms, w)
            /\ io_failures' = io_failures + SaveFailures(w, failed) + lf
            /\ n_written' = [n_written EXCEPT ![l] = @ + 1]
            /\ tail' = [tail EXCEPT ![l] = LastN(Append(@, now_ms), MaxCap)]
            /\ snap_caught' = IF SaveCatches(SaveRaised(w, listed))
                                THEN SaveRaised(w, listed) ELSE None
            /\ snap_result' = SaveResult(SaveRaised(w, listed))
    /\ save_calls' = save_calls + 1
    /\ UNCHANGED <<now_ms, max_snapshots, ocr_reads, last_text>>
    /\ UNCHANGED <<loopVars, scrVars, restVars>>

\* rotate_snapshots(label, max_snapshots, snapshot_dir) called on its own:
\* an OSError of the glob reaches the caller, one of an unlink does not.
RotateSnapshots ==
    /\ \E l \in Labels :
        \E listed \in IF io_failures < MaxIoFailures THEN BOOLEAN ELSE {TRUE} :
          \E failed \in IF io_failures < MaxIoFailures /\ listed
                           THEN SUBSET Victims(files, l, max_snapshots)
                           ELSE {{}} :
            LET lf == IF listed THEN 0 ELSE 1 IN
            /\ Cardinality(failed) + lf <= MaxIoFailures - io_failures
            /\ files' = IF listed THEN Rotate(files, l, max_snapshots, failed)
                                  ELSE files
            /\ io_failures' = io_failures + Cardinality(failed) + lf
            /\ snap_result' = IF listed THEN "returned" ELSE "OSError"
    /\ snap_caught' = None
    /\ UNCHANGED <<now_ms, max_snapshots, n_written, tail, save_calls,
                   ocr_reads, last_text>>
    /\ UNCHANGED <<loopVars, scrVars, restVars>>

\* read_text(region, preprocess): capture, preprocess, Tesseract, strip.
ReadText ==
    /\ ocr_reads < MaxReads
    /\ ocr_fed' = ReadTextImage(ocr_crop, ocr_preprocess)
    /\ \E text \in OcrTexts :
        last_text' = Strip(text)
    /\ ocr_reads' = ocr_reads + 1
    /\ UNCHANGED <<files, now_ms, max_snapshots, n_written, tail, io_failures,
                   save_calls, snap_result, snap_caught>>
    /\ UNCHANGED <<ocr_crop, ocr_preprocess>>
    /\ UNCHANGED <<loopVars, scrVars, logVars, coordVars, cfgVars, mainVars,
                   gameVars>>

\* One millisecond passes on the clock that stamps the snapshots.
TickMs ==
    /\ now_ms < MaxTs
    /\ now_ms' = now_ms + 1
    /\ UNCHANGED <<files, max_snapshots, n_written, tail, io_failures,
                   save_calls, ocr_reads, last_text, snap_result, snap_caught>>
    /\ UNCHANGED <<loopVars, scrVars, restVars>>

InitSnap ==
    /\ InitLoop
    /\ clock = 0
    /\ InitOcr
    /\ max_snapshots \in Caps
    /\ InitScreenIdle
    /\ InitRestIdle

NextSnap ==
    \/ SaveOcrSnapshot
    \/ RotateSnapshots
    \/ TickMs

SpecSnap == InitSnap /\ [][NextSnap]_vars

\* the region shows a light or a dark crop and the caller has chosen one
\* preprocess argument
InitRead ==
    /\ InitLoop
    /\ InitOcr
    /\ max_snapshots = MaxCap
    /\ InitScreenIdle
    /\ InitLogIdle
    /\ InitCoordIdle
    /\ InitCfgIdle
    /\ InitMainIdle
    /\ InitGameIdle
    /\ ocr_crop \in Crops
    /\ ocr_preprocess \in PreprocessArgs
    /\ ocr_fed = <<>>

NextRead ==
    \/ ReadText

SpecRead == InitRead /\ [][NextRead]_vars

(***************************************************************************)
(* The matcher of screen.py on one frame/template pair.                    *)
(***************************************************************************)
\* init_retina_scale(), called once by main before the runner is built.
InitRetinaScale ==
    /\ ~scale_ready
    /\ \E screen_w \in LogicalWidths, pil_w \in PhysicalWidths,
          fails \in BOOLEAN :
        RETINA_SCALE' = get_retina_scale(screen_w, pil_w, fails)
    /\ scale_ready' = TRUE
    /\ UNCHANGED <<pil_region, frame, template, scores, confidence,
                   min_distance, found, find_raised, find_calls, raw_matches,
                   filtered, found_all, all_raised, all_calls>>
    /\ UNCHANGED <<loopVars, ocrVars, waitVars, numVars, restVars>>

\* a capture that detects the scale again before cropping
TakeScreenshot_redetects ==
    /\ scale_ready
    /\ \E screen_w \in LogicalWidths, pil_w \in PhysicalWidths,
          region \in Regions :
        /\ RETINA_SCALE' = get_retina_scale(screen_w, pil_w, FALSE)
        /\ pil_region' = PilRegion(region, RETINA_SCALE')
    /\ UNCHANGED <<scale_ready, frame, template, scores, confidence,
                   min_distance, found, find_raised, find_calls, raw_matches,
                   filtered, found_all, all_raised, all_calls>>
    /\ UNCHANGED <<loopVars, ocrVars, waitVars, numVars, restVars>>

\* take_screenshot(region): the crop box is the region times the scale;
\* without a region the full screen is returned.
TakeScreenshot ==
    /\ scale_ready
    /\ \E region \in {{}} \cup {{r} : r \in Regions} :
        pil_region' = IF region = {} THEN <<>>
                      ELSE PilRegion(CHOOSE r \in region : TRUE, RETINA_SCALE)
    /\ UNCHANGED <<RETINA_SCALE, scale_ready, frame, template, scores,
                   confidence, min_distance, found, find_raised, find_calls,
                   raw_matches, filtered, found_all, all_raised, all_calls>>
    /\ UNCHANGED <<loopVars, ocrVars, waitVars, numVars, restVars>>

\* find_element(template_path, confidence, screenshot=frame)
FindElement ==
    /\ scale_ready
    /\ find_calls < MaxFindCalls
    /\ IF ResultSize(frame, template) = <<0, 0>>
         THEN /\ find_raised' = "cv2.error"
              /\ found' = {}
         ELSE /\ find_raised' = None
              /\ found' = FindBest(scores, template, confidence, RETINA_SCALE)
    /\ find_calls' = find_calls + 1
    /\ UNCHANGED <<RETINA_SCALE, scale_ready, pil_region, frame, template,
                   scores, confidence, min_distance, raw_matches, filtered,
                   found_all, all_raised, all_calls>>
    /\ UNCHANGED <<loopVars, ocrVars, waitVars, numVars, restVars>>

\* find_all_elements(template_path, confidence, min_distance, screenshot=frame)
FindAllElements ==
    /\ scale_ready
    /\ all_calls = 0
    /\ IF ResultSize(frame, template) = <<0, 0>>
         THEN /\ all_raised' = "cv2.error"
              /\ UNCHANGED <<raw_matches, filtered, found_all>>
         ELSE LET min_dist_px == min_distance * RETINA_SCALE
                  sorted == SortDescending(RawMatches(scores, template,
                                                      confidence))
                  kept == Suppress(sorted, <<>>, min_dist_px)
              IN  /\ all_raised' = None
                  /\ raw_matches' = sorted
                  /\ filtered' = kept
                  /\ found_all' = ToLogical(kept, RETINA_SCALE)
    /\ all_calls' = 1
    /\ UNCHANGED <<RETINA_SCALE, scale_ready, pil_region, frame, template,
                   scores, confidence, min_distance, found, find_raised,
                   find_calls>>
    /\ UNCHANGED <<loopVars, ocrVars, waitVars, numVars, restVars>>

InitMatch ==
    /\ InitLoop
    /\ clock = 0
    /\ InitOcr
    /\ max_snapshots = MaxCap
    /\ InitWaitIdle
    /\ InitNumIdle
    /\ InitRestIdle
    /\ InitMatchState
    /\ frame \in Frames
    /\ template \in Templates
    /\ scores \in ScoreMaps(ResultSize(frame, template),
                            CHOOSE k \in InstanceCounts :
                                \A j \in InstanceCounts : j <= k)
    /\ confidence \in Confidences
    /\ min_distance \in MinDistances

NextMatch ==
    \/ InitRetinaScale
    \/ TakeScreenshot
    \/ FindElement
    \/ FindAllElements

SpecMatch == InitMatch /\ [][NextMatch]_vars

(***************************************************************************)
(* The polling waits of screen.py.                                         *)
(***************************************************************************)
\* the call: "start = time.time()"
WaitStart ==
    /\ wait_pc = "idle"
    /\ wait_kind' \in {"wait_for_element", "wait_for_any_element"}
    /\ wait_timeout' \in Timeouts
    /\ poll_interval' \in PollIntervals
    /\ wait_start' = wait_now
    /\ wait_pc' = "check"
    /\ UNCHANGED <<wait_now, wait_result, wait_raised, last_poll>>
    /\ UNCHANGED <<loopVars, ocrVars, matchVars, numVars, restVars>>

\* the loop condition; when it fails the function logs and returns None
WaitCheck ==
    /\ wait_pc = "check"
    /\ IF DeadlineOpen(wait_now, wait_start, wait_timeout)
         THEN wait_pc' = "poll" /\ wait_result' = wait_result
         ELSE wait_pc' = "returned" /\ wait_result' = {}
    /\ UNCHANGED <<wait_kind, wait_now, wait_start, wait_timeout,
                   poll_interval, wait_raised, last_poll>>
    /\ UNCHANGED <<loopVars, ocrVars, matchVars, numVars, restVars>>

\* the body of the loop up to the sleep
WaitPoll ==
    /\ wait_pc = "poll"
    /\ \E o \in IF wait_kind = "wait_for_element" THEN ElementPolls
                                                  ELSE AnyPolls,
          dt \in PollDurations :
        /\ last_poll' = o
        /\ wait_now' = wait_now + dt
        /\ CASE PollRaises(o) # None ->
                  /\ wait_pc' = "raised"
                  /\ wait_raised' = PollRaises(o)
                  /\ wait_result' = wait_result
             [] PollRaises(o) = None /\ FirstHit(o) # 0 ->
                  /\ wait_pc' = "returned"
                  /\ wait_result' =
                        IF wait_kind = "wait_for_element"
                          THEN {MatchPos}
                          ELSE {<<TemplateNames[FirstHit(o)], MatchPos>>}
                  /\ wait_raised' = wait_raised
             [] OTHER ->
                  /\ wait_pc' = "sleep"
                  /\ UNCHANGED <<wait_result, wait_raised>>
    /\ UNCHANGED <<wait_kind, wait_start, wait_timeout, poll_interval>>
    /\ UNCHANGED <<loopVars, ocrVars, matchVars, numVars, restVars>>

\* "time.sleep(poll_interval)"
WaitSleep ==
    /\ wait_pc = "sleep"
    /\ wait_now' = wait_now + poll_interval
    /\ wait_pc' = "check"
    /\ UNCHANGED <<wait_kind, wait_start, wait_timeout, poll_interval,
                   wait_result, wait_raised, last_poll>>
    /\ UNCHANGED <<loopVars, ocrVars, matchVars, numVars, restVars>>

InitWait ==
    /\ InitLoop
    /\ clock = 0
    /\ InitOcr
    /\ max_snapshots = MaxCap
    /\ InitScreenIdle
    /\ InitRestIdle

NextWait ==
    \/ WaitStart
    \/ WaitCheck
    \/ WaitPoll
    \/ WaitSleep

SpecWait == InitWait /\ [][NextWait]_vars

(***************************************************************************)
(* The numeric readers, one call on one OCR text.                          *)
(***************************************************************************)
\* read_number(region)
ReadNumber ==
    /\ num_path = None
    /\ \E raw \in NumTexts :
        /\ num_text' = Strip(raw)
        /\ num_result' = NumberOf(Strip(raw))
    /\ num_path' = "read_number"
    /\ num_raised' = None
    /\ UNCHANGED <<loopVars, ocrVars, matchVars, waitVars, restVars>>

\* InfiniteBlackjackGame._read_player_total with the region configured
ReadPlayerTotal ==
    /\ num_path = None
    /\ IF ReadTextRejects({"region", "whitelist"})
         THEN /\ num_raised' = "TypeError"
              /\ num_text' = <<>>
              /\ num_result' = {}
         ELSE /\ num_raised' = None
              /\ \E raw \in NumTexts :
                    /\ num_text' = Strip(raw)
                    /\ num_result' = PlayerTotalOf(Strip(raw))
    /\ num_path' = "player_total"
    /\ UNCHANGED <<loopVars, ocrVars, matchVars, waitVars, restVars>>

\* InfiniteBlackjackGame._read_dealer_total with the region configured
ReadDealerTotal ==
    /\ num_path = None
    /\ IF ReadTextRejects({"region", "whitelist"})
         THEN /\ num_raised' = "TypeError"
              /\ num_text' = <<>>
              /\ num_result' = {}
         ELSE /\ num_raised' = None
              /\ \E raw \in NumTexts :
                    /\ num_text' = Strip(raw)
                    /\ num_result' = DealerTotalOf(Strip(raw))
    /\ num_path' = "dealer_total"
    /\ UNCHANGED <<loopVars, ocrVars, matchVars, waitVars, restVars>>

InitNum ==
    /\ InitLoop
    /\ clock = 0
    /\ InitOcr
    /\ max_snapshots = MaxCap
    /\ InitScreenIdle
    /\ InitRestIdle

NextNum ==
    \/ ReadNumber
    \/ ReadPlayerTotal
    \/ ReadDealerTotal

SpecNum == InitNum /\ [][NextNum]_vars

(***************************************************************************)
(* The session log: the operations of a runner that read or write          *)
(* rounds_played, the balances and the CSV log.                            *)
(***************************************************************************)
\* the loop has started the runner and has not stopped it yet
InSession == last_op \notin {None, "_init_log_file", "on_stop"}

\* a log_round that stores the balance it is given, null included
LogRound_stores_null(balance, notes) ==
    /\ rounds_played' = rounds_played + 1
    /\ current_balance' = balance
    /\ IF log_file # {}
         THEN /\ log_rounds' = Append(log_rounds, rounds_played + 1)
              /\ last_row' = <<rounds_played + 1, balance, notes>>
         ELSE UNCHANGED <<log_rounds, last_row>>
    /\ summaries' = IF (rounds_played + 1) % SummaryEvery = 0
                      THEN summaries + 1 ELSE summaries

\* BaseGame.log_round(balance, notes)
LogRound(balance, notes) ==
    /\ rounds_played' = rounds_played + 1
    /\ current_balance' = IF balance # {} THEN balance ELSE current_balance
    /\ IF log_file # {}
         THEN /\ log_rounds' = Append(log_rounds, rounds_played + 1)
              /\ last_row' = <<rounds_played + 1, balance, notes>>
         ELSE UNCHANGED <<log_rounds, last_row>>
    /\ summaries' = IF (rounds_played + 1) % SummaryEvery = 0
                      THEN summaries + 1 ELSE summaries

\* BaseGame._init_log_file, called by run() before on_start
InitLogFile ==
    /\ last_op = None
    /\ log_file' = {"logs/game.csv"}
    /\ last_op' = "_init_log_file"
    /\ writers' = {}
    /\ UNCHANGED <<runner, rounds_played, starting_balance, current_balance,
                   log_rounds, last_row, summaries>>
    /\ UNCHANGED <<loopVars, ocrVars, scrVars, coordVars, cfgVars, pipeVars,
                   mainVars, gameVars>>

\* SlotsGame.on_start
SlotsOnStart ==
    /\ runner = "SlotsGame"
    /\ last_op = "_init_log_file"
    /\ \E balance \in BalanceReads :
        IF balance # {}
          THEN /\ starting_balance' = balance
               /\ current_balance' = balance
               /\ writers' = {"on_start"}
          ELSE /\ UNCHANGED <<starting_balance, current_balance>>
               /\ writers' = {}
    /\ last_op' = "on_start"
    /\ UNCHANGED <<runner, log_file, rounds_played, log_rounds, last_row,
                   summaries>>
    /\ UNCHANGED <<loopVars, ocrVars, scrVars, coordVars, cfgVars, pipeVars,
                   mainVars, gameVars>>

\* CrazyTimeSimpleGame.on_start
SimpleOnStart ==
    /\ runner = "CrazyTimeSimpleGame"
    /\ last_op = "_init_log_file"
    /\ last_op' = "on_start"
    /\ writers' = {}
    /\ UNCHANGED <<runner, log_file, rounds_played, starting_balance,
                   current_balance, log_rounds, last_row, summaries>>
    /\ UNCHANGED <<loopVars, ocrVars, scrVars, coordVars, cfgVars, pipeVars,
                   mainVars, gameVars>>

\* BaseGame._check_reality_check
BaseCheckRealityCheck ==
    /\ InSession
    /\ last_op' = "_check_reality_check"
    /\ writers' = {}
    /\ UNCHANGED <<runner, log_file, rounds_played, starting_balance,
                   current_balance, log_rounds, last_row, summaries>>
    /\ UNCHANGED <<loopVars, ocrVars, scrVars, coordVars, cfgVars, pipeVars,
                   mainVars, gameVars>>

\* a detect_state that keeps the balance it reads
RunnerDetectState_keeps_balance ==
    /\ InSession
    /\ last_op' = "detect_state"
    /\ \E b \in Balances : current_balance' = {b}
    /\ writers' = {"detect_state"}
    /\ UNCHANGED <<runner, log_file, rounds_played, starting_balance,
                   log_rounds, last_row, summaries>>
    /\ UNCHANGED <<loopVars, ocrVars, scrVars, coordVars, cfgVars, pipeVars,
                   mainVars, gameVars>>

\* SlotsGame.detect_state and CrazyTimeSimpleGame.detect_state
RunnerDetectState ==
    /\ InSession
    /\ last_op' = "detect_state"
    /\ writers' = {}
    /\ UNCHANGED <<runner, log_file, rounds_played, starting_balance,
                   current_balance, log_rounds, last_row, summaries>>
    /\ UNCHANGED <<loopVars, ocrVars, scrVars, coordVars, cfgVars, pipeVars,
                   mainVars, gameVars>>

\* SlotsGame._check_round_result
SlotsCheckRoundResult ==
    /\ runner = "SlotsGame"
    /\ InSession
    /\ rounds_played < MaxRounds
    /\ \E check_due \in BOOLEAN, balance \in BalanceReads :
        IF check_due THEN LogRound(balance, "") ELSE LogRound({}, "")
    /\ last_op' = "_check_round_result"
    /\ writers' = {"log_round"}
    /\ UNCHANGED <<runner, log_file, starting_balance>>
    /\ UNCHANGED <<loopVars, ocrVars, scrVars, coordVars, cfgVars, pipeVars,
                   mainVars, gameVars>>

\* SlotsGame._step_monitoring
SlotsStepMonitoring ==
    /\ runner = "SlotsGame"
    /\ InSession
    /\ rounds_played < MaxRounds
    /\ \E check_due \in BOOLEAN, balance \in BalanceReads :
        IF check_due
          THEN /\ LogRound(balance, "autoplay")
               /\ writers' = IF balance # {}
                               THEN {"_step_monitoring", "log_round"}
                               ELSE {"log_round"}
          ELSE /\ UNCHANGED <<rounds_played, current_balance, log_rounds,
                              last_row, summaries>>
               /\ writers' = {}
    /\ last_op' = "_step_monitoring"
    /\ UNCHANGED <<runner, log_file, starting_balance>>
    /\ UNCHANGED <<loopVars, ocrVars, scrVars, coordVars, cfgVars, pipeVars,
                   mainVars, gameVars>>

\* CrazyTimeSimpleGame._place_bet
SimplePlaceBet ==
    /\ runner = "CrazyTimeSimpleGame"
    /\ InSession
    /\ rounds_played < MaxRounds
    /\ \E configured \in BOOLEAN, clicked \in BOOLEAN :
        IF configured /\ clicked
          THEN /\ rounds_played' = rounds_played + 1
               /\ writers' = {"_place_bet"}
          ELSE /\ UNCHANGED rounds_played
               /\ writers' = {}
    /\ last_op' = "_place_bet"
    /\ UNCHANGED <<runner, log_file, starting_balance, current_balance,
                   log_rounds, last_row, summaries>>
    /\ UNCHANGED <<loopVars, ocrVars, scrVars, coordVars, cfgVars, pipeVars,
                   mainVars, gameVars>>

\* BaseGame.on_error
BaseOnError ==
    /\ InSession
    /\ last_op' = "on_error"
    /\ writers' = {}
    /\ UNCHANGED <<runner, log_file, rounds_played, starting_balance,
                   current_balance, log_rounds, last_row, summaries>>
    /\ UNCHANGED <<loopVars, ocrVars, scrVars, coordVars, cfgVars, pipeVars,
                   mainVars, gameVars>>

\* SlotsGame.on_stop
SlotsOnStop ==
    /\ runner = "SlotsGame"
    /\ InSession
    /\ \E balance \in BalanceReads :
        IF balance # {}
          THEN /\ current_balance' = balance
               /\ writers' = {"on_stop"}
          ELSE /\ UNCHANGED current_balance
               /\ writers' = {}
    /\ last_op' = "on_stop"
    /\ UNCHANGED <<runner, log_file, rounds_played, starting_balance,
                   log_rounds, last_row, summaries>>
    /\ UNCHANGED <<loopVars, ocrVars, scrVars, coordVars, cfgVars, pipeVars,
                   mainVars, gameVars>>

\* BaseGame.on_stop, which CrazyTimeSimpleGame inherits
SimpleOnStop ==
    /\ runner = "CrazyTimeSimpleGame"
    /\ InSession
    /\ last_op' = "on_stop"
    /\ writers' = {}
    /\ UNCHANGED <<runner, log_file, rounds_played, starting_balance,
                   current_balance, log_rounds, last_row, summaries>>
    /\ UNCHANGED <<loopVars, ocrVars, scrVars, coordVars, cfgVars, pipeVars,
                   mainVars, gameVars>>

InitLog ==
    /\ InitLoop
    /\ clock = 0
    /\ InitOcr
    /\ max_snapshots = MaxCap
    /\ InitScreenIdle
    /\ InitCoordIdle
    /\ InitCfgIdle
    /\ InitPipeIdle
    /\ InitMainIdle
    /\ InitGameIdle
    /\ runner \in Runners
    /\ log_file = {}
    /\ rounds_played = 0
    /\ starting_balance = {}
    /\ current_balance = {}
    /\ log_rounds = <<>>
    /\ last_row = <<>>
    /\ summaries = 0
    /\ last_op = None
    /\ writers = {}

NextLog ==
    \/ InitLogFile
    \/ SlotsOnStart
    \/ SimpleOnStart
    \/ BaseCheckRealityCheck
    \/ RunnerDetectState
    \/ SlotsCheckRoundResult
    \/ SlotsStepMonitoring
    \/ SimplePlaceBet
    \/ BaseOnError
    \/ SlotsOnStop
    \/ SimpleOnStop

SpecLog == InitLog /\ [][NextLog]_vars

(***************************************************************************)
(* Scale detection and the conversion of a point to physical pixels and    *)
(* back.                                                                   *)
(***************************************************************************)
\* the scale in use after the detection
ScaleInUse == CHOOSE n \in det_scale : TRUE

\* _get_retina_scale()
GetRetinaScale ==
    /\ det_scale = {}
    /\ \E screen_w \in ScreenWidths, pil_w \in ShotWidths,
          failure \in QueryFailures :
        /\ det_input' = <<screen_w, pil_w, failure>>
        /\ det_scale' = {get_retina_scale(screen_w, pil_w, failure # None)}
    /\ UNCHANGED <<pt, pt_cur, pt_phys, trips>>
    /\ UNCHANGED <<loopVars, ocrVars, scrVars, logVars, cfgVars, pipeVars,
                   mainVars, gameVars>>

\* logical -> physical, as take_screenshot converts a region
ToPhysicalPoint ==
    /\ det_scale # {}
    /\ pt_phys = <<>>
    /\ trips < MaxTrips
    /\ pt_phys' = <<PhysicalOf(pt_cur[1], ScaleInUse),
                    PhysicalOf(pt_cur[2], ScaleInUse)>>
    /\ UNCHANGED <<det_input, det_scale, pt, pt_cur, trips>>
    /\ UNCHANGED <<loopVars, ocrVars, scrVars, logVars, cfgVars, pipeVars,
                   mainVars, gameVars>>

\* physical -> logical, as find_element converts a match
ToLogicalPoint ==
    /\ pt_phys # <<>>
    /\ pt_cur' = <<LogicalOf(pt_phys[1], ScaleInUse),
                   LogicalOf(pt_phys[2], ScaleInUse)>>
    /\ pt_phys' = <<>>
    /\ trips' = trips + 1
    /\ UNCHANGED <<det_input, det_scale, pt>>
    /\ UNCHANGED <<loopVars, ocrVars, scrVars, logVars, cfgVars, pipeVars,
                   mainVars, gameVars>>

InitCoord ==
    /\ InitLoop
    /\ clock = 0
    /\ InitOcr
    /\ max_snapshots = MaxCap
    /\ InitScreenIdle
    /\ InitLogIdle
    /\ InitCfgIdle
    /\ InitPipeIdle
    /\ InitMainIdle
    /\ InitGameIdle
    /\ det_input = <<>>
    /\ det_scale = {}
    /\ pt \in Points
    /\ pt_cur = pt
    /\ pt_phys = <<>>
    /\ trips = 0

NextCoord ==
    \/ GetRetinaScale
    \/ ToPhysicalPoint
    \/ ToLogicalPoint

SpecCoord == InitCoord /\ [][NextCoord]_vars

(***************************************************************************)
(* DiamondWildGame under the loop: detect_state and step look their        *)
(* templates up in the element table.                                      *)
(***************************************************************************)
\* DiamondWildGame.detect_state; visible are the templates on the screen
DiamondDetectState ==
    /\ dw_pc = "detect_state"
    /\ dw_polls < MaxPolls
    /\ \E visible \in SUBSET ElementKeys :
        LET dismiss == get_element("dismiss_popup")
            spin_btn == get_element("spin_button")
            is_dismiss == dismiss # {} /\ "dismiss_popup" \in visible
            looked_up == IF is_dismiss THEN {"dismiss_popup"}
                         ELSE {"dismiss_popup", "spin_button"}
        IN  /\ dw_state' = IF is_dismiss THEN "dismiss"
                           ELSE IF spin_btn # {} /\ "spin_button" \in visible
                             THEN "ready"
                           ELSE "waiting"
            /\ dw_warned' = dw_warned \cup Missing(looked_up)
    /\ dw_polls' = dw_polls + 1
    /\ dw_polls_after' = IF dw_warned # {} THEN dw_polls_after + 1
                         ELSE dw_polls_after
    /\ dw_pc' = "step"
    /\ UNCHANGED <<dw_elements, dw_error>>
    /\ UNCHANGED <<loopVars, ocrVars, scrVars, logVars, coordVars, pipeVars,
                   mainVars,
                   gameVars>>

\* DiamondWildGame.step: _step_dismiss, _step_spin or _step_wait
DiamondStep ==
    /\ dw_pc = "step"
    /\ dw_warned' = dw_warned \cup
         CASE dw_state = "dismiss" -> Missing({"dismiss_popup"})
           [] dw_state = "ready" -> Missing({"spin_button"})
           [] OTHER -> {}
    /\ dw_pc' = "detect_state"
    /\ UNCHANGED <<dw_elements, dw_state, dw_error, dw_polls, dw_polls_after>>
    /\ UNCHANGED <<loopVars, ocrVars, scrVars, logVars, coordVars, pipeVars,
                   mainVars,
                   gameVars>>

InitCfg ==
    /\ InitLoop
    /\ clock = 0
    /\ InitOcr
    /\ max_snapshots = MaxCap
    /\ InitScreenIdle
    /\ InitLogIdle
    /\ InitCoordIdle
    /\ InitPipeIdle
    /\ InitMainIdle
    /\ InitGameIdle
    /\ dw_elements \in SUBSET ElementKeys
    /\ dw_pc = "detect_state"
    /\ dw_state = None
    /\ dw_warned = {}
    /\ dw_error = None
    /\ dw_polls = 0
    /\ dw_polls_after = 0

NextCfg ==
    \/ DiamondDetectState
    \/ DiamondStep

SpecCfg == InitCfg /\ [][NextCfg]_vars

(***************************************************************************)
(* Interactive mode of main.py: the duration prompt, then the loop.        *)
(***************************************************************************)
\* interactive_get_duration(); the prompt returns valid answers only
InteractiveGetDuration ==
    /\ prompt_answer = {}
    /\ \E answer \in PromptAnswers :
        /\ ValidAnswer(answer)
        /\ prompt_answer' = {answer}
        /\ duration' = DurationOf(answer)
    /\ UNCHANGED <<loopVars, ocrVars, scrVars, logVars, coordVars, cfgVars,
                   pipeVars,
                   gameVars>>

\* runner.run(duration_minutes=duration) of interactive_mode
InteractiveRun ==
    /\ prompt_answer # {}
    /\ Run(duration)

NextMain ==
    \/ InteractiveGetDuration
    \/ InteractiveRun
    \/ OnStart
    \/ LoopHead
    \/ PreCheck
    \/ DetectState
    \/ Step
    \/ StepBonusPick
    \/ PickLoop
    \/ PickBody
    \/ CheckRoundResult
    \/ KeyboardInterruptBreak
    \/ OnError
    \/ OnStop
    \/ FinalSummary
    \/ Sigint
    \/ Tick

SpecMain == Init /\ [][NextMain]_vars

(***************************************************************************)
(* The reality check at the head of every loop iteration.                  *)
(***************************************************************************)

\* "if self._check_reality_check(): continue" of BaseGame.run
RealityCheck ==
    /\ rc_calls < MaxChecks
    /\ \E seen \in MatchResults, pos \in MatchResults :
        LET r == check_reality_check(rc_element, seen, rc_click_target, pos)
        IN  /\ rc_ret' = IF r.raised THEN {} ELSE {r.ret}
            /\ rc_clicks' = r.clicks
            /\ rc_total' = rc_total + r.clicks
            /\ rc_raised' = r.raised
    /\ rc_calls' = rc_calls + 1
    /\ UNCHANGED <<rc_element, rc_click_target>>
    /\ UNCHANGED exceptRc

\* The configuration decides whether the popup has a template and whether
\* its click target is given by coordinates.
InitRc ==
    /\ InitLoop
    /\ InitOcr
    /\ max_snapshots = MaxCap
    /\ InitScreenIdle
    /\ InitLogIdle
    /\ InitCoordIdle
    /\ InitCfgIdle
    /\ InitPipeIdle
    /\ InitMainIdle
    /\ rc_element \in BOOLEAN
    /\ rc_click_target \in BOOLEAN
    /\ rc_calls = 0
    /\ rc_ret = {}
    /\ rc_clicks = 0
    /\ rc_total = 0
    /\ rc_raised = FALSE
    /\ InitSimpleIdle
    /\ InitFnIdle
    /\ InitCtIdle
    /\ InitBjIdle
    /\ InitSlotIdle

NextRc ==
    \/ RealityCheck

SpecRc == InitRc /\ [][NextRc]_vars

(***************************************************************************)
(* CrazyTimeSimpleGame under the loop of BaseGame.run: detect_state, then  *)
(* step; an exception of either goes to on_error, which sleeps Cooldown    *)
(* seconds, and the loop goes on.                                          *)
(***************************************************************************)
\* CrazyTimeSimpleGame.detect_state; open is what find_element gives for
\* betting_open.
SimpleDetectState ==
    /\ simple_pc = "detect"
    /\ IF simple_state = "cooldown"
            /\ simple_now - cooldown_start < cooldown_time
         THEN /\ simple_detected' = "cooldown"
              /\ examined' = FALSE
              /\ simple_raised' = FALSE
              /\ simple_pc' = "step"
              /\ UNCHANGED <<simple_state, simple_now>>
         ELSE /\ simple_state' = "waiting"
              /\ examined' = TRUE
              /\ \E open \in MatchResults :
                  IF open = "raise"
                    THEN /\ simple_now + Cooldown <= MaxSimpleClock
                         /\ simple_now' = simple_now + Cooldown
                         /\ simple_raised' = TRUE
                         /\ simple_pc' = "detect"
                         /\ UNCHANGED simple_detected
                    ELSE /\ simple_detected' =
                              IF open = "found" THEN "betting" ELSE "waiting"
                         /\ simple_raised' = FALSE
                         /\ simple_pc' = "step"
                         /\ UNCHANGED simple_now
    /\ UNCHANGED <<cooldown_start, cooldown_time, bet_1, last_bet_click>>
    /\ UNCHANGED exceptSimple

\* CrazyTimeSimpleGame.step with _place_bet; pos is what the find_element
\* call of click_element gives, moved: move_mouse_away returns.
SimpleStep ==
    /\ simple_pc = "step"
    /\ simple_pc' = "detect"
    /\ IF simple_detected = "betting" /\ bet_1
         THEN \E pos \in MatchResults, moved \in BOOLEAN :
                LET r == click_element(pos) IN
                IF r.raised
                  THEN /\ simple_now + Cooldown <= MaxSimpleClock
                       /\ simple_now' = simple_now + Cooldown
                       /\ simple_raised' = TRUE
                       /\ UNCHANGED <<simple_state, cooldown_start,
                                      last_bet_click>>
                  ELSE /\ last_bet_click' =
                            IF r.ret THEN {simple_now} ELSE last_bet_click
                       /\ IF moved
                            THEN /\ simple_state' = "cooldown"
                                 /\ cooldown_start' = simple_now
                                 /\ simple_raised' = FALSE
                                 /\ UNCHANGED simple_now
                            ELSE /\ simple_now + Cooldown <= MaxSimpleClock
                                 /\ simple_now' = simple_now + Cooldown
                                 /\ simple_raised' = TRUE
                                 /\ UNCHANGED <<simple_state, cooldown_start>>
         ELSE /\ \E sleep \in IF simple_detected = "cooldown"
                                THEN {1} ELSE SimplePollIntervals :
                    /\ simple_now + sleep <= MaxSimpleClock
                    /\ simple_now' = simple_now + sleep
              /\ simple_raised' = FALSE
              /\ UNCHANGED <<simple_state, cooldown_start, last_bet_click>>
    /\ UNCHANGED <<cooldown_time, bet_1, simple_detected, examined>>
    /\ UNCHANGED exceptSimple

\* A second passes while the loop captures, matches or logs.
SimpleTick ==
    /\ simple_pc \in {"detect", "step"}
    /\ simple_now < MaxSimpleClock
    /\ simple_now' = simple_now + 1
    /\ UNCHANGED <<simple_pc, simple_state, cooldown_start, cooldown_time,
                   bet_1, simple_detected, examined, last_bet_click,
                   simple_raised>>
    /\ UNCHANGED exceptSimple

\* CrazyTimeSimpleGame.__init__, then run() reaches its loop.
InitSimple ==
    /\ InitLoop
    /\ InitOcr
    /\ max_snapshots = MaxCap
    /\ InitScreenIdle
    /\ InitLogIdle
    /\ InitCoordIdle
    /\ InitCfgIdle
    /\ InitPipeIdle
    /\ InitMainIdle
    /\ InitRcIdle
    /\ InitFnIdle
    /\ InitCtIdle
    /\ InitBjIdle
    /\ InitSlotIdle
    /\ simple_pc = "detect"
    /\ simple_now = 0
    /\ simple_state = "waiting"
    /\ cooldown_start = 0
    /\ cooldown_time \in CooldownTimes
    /\ bet_1 \in BOOLEAN
    /\ simple_detected = "waiting"
    /\ examined = FALSE
    /\ last_bet_click = {}
    /\ simple_raised = FALSE

NextSimple ==
    \/ SimpleDetectState
    \/ SimpleStep
    \/ SimpleTick

SpecSimple == InitSimple /\ [][NextSimple]_vars

(***************************************************************************)
(* The functions of the runners that keep no state: click_region_random    *)
(* and get_action, each called once on arguments of the caller's choice.   *)
(***************************************************************************)
ClickRegionRandom ==
    /\ click_region = {}
    /\ \E region \in ClickRegions :
        /\ click_region' = {region}
        /\ \E p \in click_region_random(region) : click_point' = {p}
    /\ UNCHANGED <<hand, action>>
    /\ UNCHANGED exceptFn

\* get_action(player_total, dealer_upcard, is_soft)
GetAction ==
    /\ hand = {}
    /\ \E h \in Hands :
        /\ hand' = {h}
        /\ action' = {get_action(h.player_total, h.dealer_upcard, h.is_soft)}
    /\ UNCHANGED <<click_region, click_point>>
    /\ UNCHANGED exceptFn

InitFn ==
    /\ InitLoop
    /\ InitOcr
    /\ max_snapshots = MaxCap
    /\ InitScreenIdle
    /\ InitRestIdle

NextFn ==
    \/ ClickRegionRandom
    \/ GetAction

SpecFn == InitFn /\ [][NextFn]_vars

(***************************************************************************)
(* CrazyTimeGame under the loop of BaseGame.run: detect_state, then step;  *)
(* an exception of either goes to on_error and the loop goes on.           *)
(***************************************************************************)
\* CrazyTimeGame.detect_state: take_screenshot raises, or one of the three
\* states is returned.
CrazyDetectState ==
    /\ ct_pc = "detect"
    /\ \E d \in CrazyTimeStates \cup {"raise"} :
        IF d = "raise"
          THEN /\ ct_raised' = TRUE
               /\ UNCHANGED <<ct_pc, ct_detected, phase_clicks>>
          ELSE /\ ct_raised' = FALSE
               /\ ct_pc' = "step"
               /\ ct_detected' = d
               /\ phase_clicks' = IF d = "betting" THEN phase_clicks
                                  ELSE [seg \in Segments |-> 0]
    /\ UNCHANGED <<ct_last_state, bets_placed_this_round, has_coords,
                   ct_rounds>>
    /\ UNCHANGED exceptCt

\* _step_betting: the bets in shuffled order, the confirm button, the flag,
\* move_mouse_away.
StepBetting ==
    IF bets_placed_this_round
      THEN /\ ct_raised' = FALSE
           /\ UNCHANGED <<bets_placed_this_round, phase_clicks>>
      ELSE \E order \in Shuffles, o \in BetOutcomes(has_coords),
              confirm \in MatchResults, moved \in BOOLEAN :
             /\ phase_clicks' =
                  [seg \in Segments |->
                     IF seg \in Clicked(order, o)
                       THEN phase_clicks[seg] + 1 ELSE phase_clicks[seg]]
             /\ \A seg \in Segments : phase_clicks'[seg] <= MaxPhaseClicks
             /\ bets_placed_this_round' =
                  (~LoopRaised(order, o) /\ confirm # "raise")
             /\ ct_raised' =
                  (LoopRaised(order, o) \/ confirm = "raise" \/ ~moved)

\* CrazyTimeGame.step(state); balance_read: the _read_balance call of
\* _on_round_end or of _step_bonus_cash_hunt returns.
CrazyStep ==
    /\ ct_pc = "step"
    /\ ct_pc' = "detect"
    /\ \E balance_read \in BOOLEAN :
        LET round_end ==
                ct_last_state = "betting" /\ ct_detected = "idle"
        IN  IF round_end /\ ~balance_read
              THEN /\ ct_raised' = TRUE
                   /\ UNCHANGED <<ct_last_state, bets_placed_this_round,
                                  phase_clicks, ct_rounds>>
            ELSE /\ ct_last_state' = ct_detected
                 /\ CASE ct_detected = "idle" ->
                           /\ bets_placed_this_round' = FALSE
                           /\ ct_rounds' =
                                ct_rounds + IF round_end THEN 1 ELSE 0
                           /\ ct_raised' = FALSE
                           /\ UNCHANGED phase_clicks
                      [] ct_detected = "betting" ->
                           /\ StepBetting
                           /\ UNCHANGED ct_rounds
                      [] ct_detected = "bonus_cash_hunt" ->
                           /\ ct_rounds' =
                                ct_rounds + IF balance_read THEN 1 ELSE 0
                           /\ ct_raised' = ~balance_read
                           /\ UNCHANGED <<bets_placed_this_round,
                                          phase_clicks>>
                 /\ ct_rounds' <= MaxCrazyRounds
    /\ UNCHANGED <<ct_detected, has_coords>>
    /\ UNCHANGED exceptCt

\* CrazyTimeGame.__init__ on a configuration with two bets, then run()
\* reaches its loop.
InitCrazy ==
    /\ InitLoop
    /\ InitOcr
    /\ max_snapshots = MaxCap
    /\ InitScreenIdle
    /\ InitLogIdle
    /\ InitCoordIdle
    /\ InitCfgIdle
    /\ InitPipeIdle
    /\ InitMainIdle
    /\ InitRcIdle
    /\ InitSimpleIdle
    /\ InitFnIdle
    /\ InitBjIdle
    /\ InitSlotIdle
    /\ ct_pc = "detect"
    /\ ct_detected = "idle"
    /\ ct_last_state = "idle"
    /\ bets_placed_this_round = FALSE
    /\ has_coords \in [Segments -> BOOLEAN]
    /\ phase_clicks = [seg \in Segments |-> 0]
    /\ ct_rounds = 0
    /\ ct_raised = FALSE

NextCrazy ==
    \/ CrazyDetectState
    \/ CrazyStep

SpecCrazy == InitCrazy /\ [][NextCrazy]_vars

(***************************************************************************)
(* InfiniteBlackjackGame under the loop of BaseGame.run.                   *)
(***************************************************************************)
\* InfiniteBlackjackGame.detect_state: take_screenshot raises, or one of
\* the three states is returned.
BjDetectState ==
    /\ bj_pc = "detect"
    /\ \E d \in BlackjackStates \cup {"raise"} :
        IF d = "raise"
          THEN /\ bj_raised' = TRUE
               /\ UNCHANGED <<bj_pc, bj_detected, betting_ended>>
          ELSE /\ bj_raised' = FALSE
               /\ bj_pc' = "step"
               /\ bj_detected' = d
               /\ betting_ended' =
                    IF bj_detected = "betting" /\ d # "betting"
                      THEN betting_ended + 1 ELSE betting_ended
               /\ betting_ended' <= MaxBjRounds
    /\ UNCHANGED <<bj_last_state, bet_placed_this_round, bj_rounds>>
    /\ UNCHANGED exceptBj

\* InfiniteBlackjackGame.step(state): the transition block, then the
\* handler of the state.  balance_read: the _read_balance call of
\* _on_round_end returns; placed: _step_betting clicks a bet; done: the
\* handler returns.
BjStep ==
    /\ bj_pc = "step"
    /\ bj_pc' = "detect"
    /\ \E balance_read \in BOOLEAN, placed \in BOOLEAN, done \in BOOLEAN :
        LET changed == bj_detected # bj_last_state
            round_end == /\ changed
                         /\ bj_last_state = "betting"
                         /\ bj_detected = "waiting"
            flag == IF changed /\ bj_detected = "betting"
                      THEN FALSE ELSE bet_placed_this_round
        IN  IF round_end /\ ~balance_read
              THEN /\ bj_raised' = TRUE
                   /\ UNCHANGED <<bj_last_state, bet_placed_this_round,
                                  bj_rounds>>
            ELSE /\ bj_last_state' = bj_detected
                 /\ bj_rounds' = bj_rounds + IF round_end THEN 1 ELSE 0
                 /\ bet_placed_this_round' =
                      IF bj_detected = "betting" /\ ~flag THEN placed
                      ELSE flag
                 /\ bj_raised' = (bj_detected # "waiting" /\ ~done)
    /\ UNCHANGED <<bj_detected, betting_ended>>
    /\ UNCHANGED exceptBj

\* InfiniteBlackjackGame.__init__, then run() reaches its loop.
InitBj ==
    /\ InitLoop
    /\ InitOcr
    /\ max_snapshots = MaxCap
    /\ InitScreenIdle
    /\ InitLogIdle
    /\ InitCoordIdle
    /\ InitCfgIdle
    /\ InitPipeIdle
    /\ InitMainIdle
    /\ InitRcIdle
    /\ InitSimpleIdle
    /\ InitFnIdle
    /\ InitCtIdle
    /\ InitSlotIdle
    /\ bj_pc = "detect"
    /\ bj_detected = "waiting"
    /\ bj_last_state = "waiting"
    /\ bet_placed_this_round = FALSE
    /\ bj_rounds = 0
    /\ betting_ended = 0
    /\ bj_raised = FALSE

NextBj ==
    \/ BjDetectState
    \/ BjStep

SpecBj == InitBj /\ [][NextBj]_vars

(***************************************************************************)
(* SlotsGame under the loop of BaseGame.run, with the end of the session   *)
(* and the on_stop hook of the finally clause.                             *)
(***************************************************************************)
\* SlotsGame.detect_state
SlotDetectState ==
    /\ slot_pc = "detect"
    /\ \E screen \in SlotScreens :
        IF screen = "raise"
          THEN UNCHANGED <<slot_pc, slot_detected, autoplay_active>>
          ELSE /\ slot_pc' = "step"
               /\ IF screen = "bonus"
                    THEN /\ slot_detected' = "bonus"
                         /\ UNCHANGED autoplay_active
                  ELSE IF spin_mode = "autoplay"
                    THEN LET r == detect_autoplay_state(
                                    screen, bet_is_set, autoplay_active,
                                    slot_elements)
                         IN  /\ slot_detected' = r.state
                             /\ autoplay_active' = r.active
                  ELSE /\ slot_detected' =
                            detect_manual_state(screen, bet_is_set)
                       /\ UNCHANGED autoplay_active
    /\ UNCHANGED <<slot_elements, spin_mode, bet_is_set, bet_matched, spins,
                   stop_clicks, ended_active>>
    /\ UNCHANGED exceptSlot

\* _step_set_bet; read: what the first read_number of the bet amount gives,
\* adjusted: what the reads made while the bet is adjusted give ("raise": a
\* click or a read of the adjustment raises).
StepSetBet ==
    \E read \in {"equal", "other", "none", "raise"},
       adjusted \in {"equal", "other", "raise"} :
        IF read = "raise" \/ (read # "equal" /\ adjusted = "raise")
          THEN UNCHANGED <<bet_is_set, bet_matched>>
        ELSE /\ bet_is_set' = TRUE
             /\ bet_matched' =
                  (bet_matched \/ read = "equal" \/ adjusted = "equal")

\* _step_start_autoplay, also reached through _step_resume_autoplay;
\* confirmed: the click on autoplay_confirm does not raise.
StepStartAutoplay ==
    IF "autoplay_button" \notin slot_elements
      THEN /\ spin_mode' = "manual"
           /\ UNCHANGED <<autoplay_active, spins>>
      ELSE \E pos \in MatchResults, confirmed \in BOOLEAN :
             /\ spins' = spins + click_element(pos).clicks
             /\ autoplay_active' =
                  IF click_element(pos).ret /\ confirmed
                    THEN TRUE ELSE autoplay_active
             /\ UNCHANGED spin_mode

\* SlotsGame.step(state)
SlotStep ==
    /\ slot_pc = "step"
    /\ slot_pc' = "detect"
    /\ CASE slot_detected = "set_bet" ->
              /\ StepSetBet
              /\ UNCHANGED <<spin_mode, autoplay_active, spins>>
         [] slot_detected = "spin" ->
              /\ \E pos \in MatchResults :
                    spins' = spins + click_element(pos).clicks
              /\ UNCHANGED <<spin_mode, autoplay_active, bet_is_set,
                             bet_matched>>
         [] slot_detected \in {"start_autoplay", "resume_autoplay"} ->
              /\ StepStartAutoplay
              /\ UNCHANGED <<bet_is_set, bet_matched>>
         [] OTHER ->
              UNCHANGED <<spin_mode, autoplay_active, bet_is_set,
                          bet_matched, spins>>
    /\ spins' <= MaxSpins
    /\ UNCHANGED <<slot_detected, slot_elements, stop_clicks, ended_active>>
    /\ UNCHANGED exceptSlot

\* "while self.running and not self.session_expired" ends the loop.
SlotSessionEnds ==
    /\ slot_pc = "detect"
    /\ slot_pc' = "on_stop"
    /\ ended_active' = autoplay_active
    /\ UNCHANGED <<slot_detected, slot_elements, spin_mode, bet_is_set,
                   autoplay_active, bet_matched, spins, stop_clicks>>
    /\ UNCHANGED exceptSlot

\* SlotsGame.on_stop with _cancel_autoplay, called by the finally clause of
\* run(); balance_read: its _read_balance call returns.
SlotOnStop ==
    /\ slot_pc = "on_stop"
    /\ \E pos \in MatchResults, balance_read \in BOOLEAN :
        IF autoplay_active /\ "autoplay_stop" \in slot_elements
          THEN IF click_element(pos).raised
                 THEN /\ slot_pc' = "raised"
                      /\ UNCHANGED <<autoplay_active, stop_clicks>>
                 ELSE /\ stop_clicks' = stop_clicks + click_element(pos).clicks
                      /\ autoplay_active' = FALSE
                      /\ slot_pc' =
                           IF balance_read THEN "returned" ELSE "raised"
          ELSE /\ slot_pc' = IF balance_read THEN "returned" ELSE "raised"
               /\ UNCHANGED <<autoplay_active, stop_clicks>>
    /\ UNCHANGED <<slot_detected, slot_elements, spin_mode, bet_is_set,
                   bet_matched, spins, ended_active>>
    /\ UNCHANGED exceptSlot

\* SlotsGame.__init__ on a manual or an autoplay configuration, then run()
\* reaches its loop.
InitSlot ==
    /\ InitLoop
    /\ InitOcr
    /\ max_snapshots = MaxCap
    /\ InitScreenIdle
    /\ InitLogIdle
    /\ InitCoordIdle
    /\ InitCfgIdle
    /\ InitPipeIdle
    /\ InitMainIdle
    /\ InitRcIdle
    /\ InitSimpleIdle
    /\ InitFnIdle
    /\ InitCtIdle
    /\ InitBjIdle
    /\ slot_pc = "detect"
    /\ slot_detected = "unknown"
    /\ slot_elements \in SUBSET OptionalElements
    /\ spin_mode \in {"manual", "autoplay"}
    /\ bet_is_set = FALSE
    /\ autoplay_active = FALSE
    /\ bet_matched = FALSE
    /\ spins = 0
    /\ stop_clicks = 0
    /\ ended_active = FALSE

NextSlot ==
    \/ SlotDetectState
    \/ SlotStep
    \/ SlotSessionEnds
    \/ SlotOnStop

SpecSlot == InitSlot /\ [][NextSlot]_vars

(***************************************************************************)
(* Properties of BaseGame.run, checked under Spec.                         *)
(***************************************************************************)

\* on_error has logged the caught exception and slept the cooldown.
ErrorHandled ==
    /\ logged' = <<exc, "game loop">>
    /\ clock' - clock >= Cooldown

\* C1 (as stated): whenever detect_state raised and the running flag stays
\* set, the loop does not terminate: on_error logs and sleeps, the next
\* iteration starts and calls detect_state again.
C1_RetryAlways ==
    [][ (detect_retry /\ running /\ pc' # pc
           /\ pc \in {"on_error", "loop_head", "precheck"})
        => \/ pc = "on_error" /\ pc' = "loop_head" /\ ErrorHandled
           \/ pc = "loop_head" /\ pc' = "precheck"
           \/ pc = "precheck" /\ pc' = "detect_state" ]_vars

\* C1 (amended): after detect_state raised an Exception and while the running
\* flag stays set, on_error logs the error and sleeps the cooldown and the
\* loop goes back to its boundary check; it terminates there only if the
\* session has expired, otherwise the next iteration starts with the
\* pre-check and calls detect_state again unless the pre-check handles an
\* interrupt or raises.
C1_LoopResilience ==
    [][ (detect_retry /\ running /\ pc' # pc)
        => /\ pc = "on_error" => pc' = "loop_head" /\ ErrorHandled
           /\ pc = "loop_head" /\ ~session_expired => pc' = "precheck"
           /\ pc = "loop_head" /\ session_expired => pc' = "on_stop"
           /\ pc = "precheck" =>
                \/ pc' = "detect_state"
                \/ pc' = "loop_head" /\ handled'
                \/ pc' = "on_error" /\ raised_in' = "precheck"
                \/ pc' = "kbd_break" ]_vars

\* detect_state is in flight again after an earlier call of it raised.
C1_DetectRetried == pc = "detect_state" /\ detect_retry /\ logged # <<>>

\* C2: teardown (on_stop, then the final summary) has run whenever run()
\* has returned or propagated an exception.
C2_TeardownAlwaysRuns ==
    pc \in {"returned", "raised"} => on_stop_called /\ summary_printed

\* C3: a capture failure never propagates out of run(), wherever in the
\* session it occurs.
C3_CaptureFailureRecovered == escaped # "CaptureError"

\* C4: the lifecycle is RUNNING -> STOPPING -> STOPPED with no other
\* transition; RUNNING is left only on expiry, a cancellation signal or a
\* cleared running flag; no hook of the loop body is called once RUNNING is
\* left; STOPPED is reached only after the teardown hooks have run.
C4_Lifecycle ==
    [][ /\ LoopState' # LoopState =>
             <<LoopState, LoopState'>> \in
                {<<"CREATED", "RUNNING">>, <<"RUNNING", "STOPPING">>,
                 <<"STOPPING", "STOPPED">>}
        /\ (LoopState = "RUNNING" /\ LoopState' = "STOPPING") =>
             ~running \/ session_expired \/ pc = "kbd_break"
        /\ LoopState \in {"STOPPING", "STOPPED"} => pc' \notin LoopPcs
        /\ LoopState' = "STOPPED" => on_stop_called' /\ summary_printed'
      ]_vars

\* C5 (as stated): the flag is read only at the boundary checks of the loop,
\* so the pick loop of an in-flight _step_bonus_pick ends at its head only
\* when its max_picks passes are used up.
C5_FlagOnlyAtBoundaries ==
    [][ /\ (running /\ ~running') =>
             UNCHANGED <<pc, state, exc, pick_iter, calls, step_arg>>
        /\ (pc = "loop_head" /\ ~running /\ pc' # pc) => pc' = "on_stop"
        /\ (LoopState = "RUNNING" /\ LoopState' = "STOPPING") =>
             pc \in {"loop_head", "on_error", "kbd_break"}
        /\ (pc = "pick_loop" /\ pc' = "check_round_result") =>
             pick_iter >= max_picks ]_vars

\* C5 (amended): the SIGINT handler only clears the flag; the loop observes
\* it only at its boundary checks (the while condition and the check after
\* on_error) and exits there without starting another iteration; inside an
\* iteration the flag is read only by _step_bonus_pick between two picks,
\* which then skips its remaining picks; every other in-flight call runs
\* to completion.
C5_CooperativeCancellation ==
    [][ /\ (running /\ ~running') =>
             UNCHANGED <<pc, state, exc, pick_iter, calls, step_arg>>
        /\ (pc = "loop_head" /\ ~running /\ pc' # pc) => pc' = "on_stop"
        /\ (LoopState = "RUNNING" /\ LoopState' = "STOPPING") =>
             pc \in {"loop_head", "on_error", "kbd_break"}
        /\ (pc = "pick_loop" /\ pc' = "check_round_result") =>
             pick_iter >= max_picks \/ ~running
        /\ (pc = "pick_loop" /\ pc' = "pick_body") => running ]_vars

\* step() was called after the flag had been cleared during the iteration.
C5_StepAfterCancel == pc = "step" /\ ~running /\ ~session_expired

\* the iteration that last ended went through all three hooks
FullIteration == <<"precheck", "detect_state", "step">>

\* C6 (as stated): an iteration starts with the boundary check, then the
\* pre-check; if the pre-check handled an interrupt nothing else is called,
\* otherwise detect_state and then step(state) are each called exactly once.
C6_DetectThenStepOnce ==
    /\ [][pc' = "precheck" /\ pc # "precheck" =>
            pc = "loop_head" /\ running /\ ~session_expired]_vars
    /\ [](/\ handled => calls = <<"precheck">>
          /\ (pc = "loop_head" /\ calls # <<>> /\ ~handled) =>
                calls = FullIteration /\ step_arg = state)

\* C6 (amended): as stated, except that detect_state is called only if the
\* pre-check returned normally and step only if detect_state returned
\* normally; an exception in the pre-check or in detect_state ends the
\* iteration without the remaining calls.
C6_IterationOrder ==
    /\ [][pc' = "precheck" /\ pc # "precheck" =>
            pc = "loop_head" /\ running /\ ~session_expired]_vars
    /\ [](/\ handled => calls = <<"precheck">>
          /\ \E n \in 0..3 : calls = SubSeq(FullIteration, 1, n)
          /\ Len(calls) = 3 => step_arg = state
          /\ raised_in = "precheck" => calls = <<"precheck">>
          /\ raised_in = "detect_state" => Len(calls) = 2
          /\ (pc = "loop_head" /\ calls # <<>> /\ ~handled
                /\ raised_in \notin {"precheck", "detect_state"}) =>
                calls = FullIteration)

\* an iteration in which the pre-check found nothing has completed
C6_IterationCompleted ==
    pc = "loop_head" /\ ~handled /\ calls = FullIteration /\ raised_in = None

\* C7 (as stated): time_remaining is never negative and never increases, and
\* no pre-check, detect_state or step starts when time_remaining is 0.
C7_NoCallAfterExpiry ==
    /\ [](time_remaining >= 0)
    /\ [][ /\ pc # "idle" => time_remaining' <= time_remaining
           /\ (pc' \in {"precheck", "detect_state", "step"} /\ pc' # pc) =>
                time_remaining' > 0 ]_vars

\* C7 (amended): time_remaining is never negative and never increases; expiry
\* is observed at the boundary check only: no iteration starts when
\* time_remaining is 0 and the loop leaves RUNNING at the first boundary check
\* at which it is 0, while detect_state and step of an iteration already
\* begun may still start after expiry.
C7_SessionExpiry ==
    /\ [](time_remaining >= 0)
    /\ [][ /\ pc # "idle" => time_remaining' <= time_remaining
           /\ (pc = "loop_head" /\ pc' = "precheck") => time_remaining > 0
           /\ (pc = "loop_head" /\ time_remaining = 0 /\ pc' # pc) =>
                pc' = "on_stop" ]_vars

\* step() starts although the session expired during the iteration
C7_ExpiredMidIteration ==
    pc = "step" /\ running /\ time_remaining = 0 /\ clock > session_start

(***************************************************************************)
(* Properties of the OCR reads and of the snapshot recorder.               *)
(***************************************************************************)

\* C8: every read_text call results in one save_ocr_snapshot call.
C8_EveryReadSnapshots ==
    [][ocr_reads' = ocr_reads + 1 => save_calls' = save_calls + 1]_vars

Group(l, ts) == {SnapFile(l, ts, k) : k \in Kinds}

\* timestamps of the min(n, max_snapshots) latest save calls for label l
Newest(l) ==
    LET k == Min(n_written[l], max_snapshots)
    IN  {tail[l][i] : i \in (Len(tail[l]) - k + 1)..Len(tail[l])}

\* C9: after each call the groups on disk for a label are exactly the
\* min(n, N) most recently written ones (here: in runs where no file
\* operation failed).
C9_RotationKeepsNewest ==
    io_failures = 0 =>
        \A l \in Labels :
            /\ {f \in files : f.label = l} = UNION {Group(l, ts) : ts \in Newest(l)}
            /\ Cardinality(Newest(l)) = Min(n_written[l], max_snapshots)

AllOrNothing == \A f \in files : Group(f.label, f.ts) \subseteq files

C11_SaveNeverRaises ==
    [][save_calls' = save_calls + 1 => snap_result' = "returned"]_vars

\* a save_ocr_snapshot call has swallowed an exception and returned
C11_FailureSwallowed ==
    /\ snap_caught \in {"OSError", "cv2.error"}
    /\ snap_result = "returned"
    /\ io_failures > 0

(***************************************************************************)
(* Properties of the template matcher, checked under SpecMatch.            *)
(***************************************************************************)

\* the locations of the frame at which the template scores >= confidence
Instances == {p \in DOMAIN scores : scores[p] >= confidence}

\* min_distance in physical pixels
MinDistPx == min_distance * RETINA_SCALE

SquaredDistance(p, q) ==
    (p[1] - q[1]) * (p[1] - q[1]) + (p[2] - q[2]) * (p[2] - q[2])

\* p and q are at least d apart horizontally or vertically
AxisApart(p, q, d) == Abs(p[1] - q[1]) >= d \/ Abs(p[2] - q[2]) >= d

\* the logical centre find_all_elements reports for the instance at p
CentreOf(p) ==
    <<(p[1] + template.w \div 2) \div RETINA_SCALE,
      (p[2] + template.h \div 2) \div RETINA_SCALE>>

AllReturned == all_calls = 1 /\ all_raised = None

\* C12 (as stated): k instances pairwise farther apart than min_distance
\* give exactly k matches; two instances closer than min_distance give
\* exactly one match, the higher-scoring one.
C12_SpacedInstances ==
    AllReturned =>
      /\ (\A p, q \in Instances :
              p # q => SquaredDistance(p, q) > MinDistPx * MinDistPx)
           => Len(found_all) = Cardinality(Instances)
      /\ \A p, q \in Instances :
           (Instances = {p, q} /\ p # q
              /\ SquaredDistance(p, q) < MinDistPx * MinDistPx)
           => /\ Len(found_all) = 1
              /\ \E b \in {p, q} :
                    /\ scores[b] >= scores[p] /\ scores[b] >= scores[q]
                    /\ found_all[1] = CentreOf(b)

\* C12 (amended): k instances that are pairwise at least min_distance apart
\* horizontally or vertically give exactly k matches; two instances less
\* than min_distance apart both horizontally and vertically give exactly
\* one match, the higher-scoring one (the first in scan order on a tie).
C12_AxisSpacedInstances ==
    AllReturned =>
      /\ (\A p, q \in Instances : p # q => AxisApart(p, q, MinDistPx))
           => /\ Len(found_all) = Cardinality(Instances)
              /\ {found_all[i] : i \in 1..Len(found_all)}
                   = {CentreOf(p) : p \in Instances}
      /\ \A p, q \in Instances :
           (Instances = {p, q} /\ p # q /\ ~AxisApart(p, q, MinDistPx))
           => /\ Len(found_all) = 1
              /\ \E b \in {p, q} :
                    /\ scores[b] >= scores[p] /\ scores[b] >= scores[q]
                    /\ (scores[p] = scores[q] =>
                           \A c \in {p, q} \ {b} : ScanLess(b, c))
                    /\ found_all[1] = CentreOf(b)

\* three instances far enough apart have all been reported
C12_ThreeSpacedFound ==
    /\ AllReturned
    /\ Cardinality(Instances) = 3
    /\ \A p, q \in Instances : p # q => AxisApart(p, q, MinDistPx)
    /\ Len(found_all) = 3

\* the candidate at centre <<cx, cy>> with its score, as find_all_elements
\* holds it
Candidate(p) ==
    [cx |-> p[1] + template.w \div 2, cy |-> p[2] + template.h \div 2,
     score |-> scores[p]]

Kept(i) == \E k \in 1..Len(filtered) : filtered[k] = raw_matches[i]

\* every location scoring >= confidence is a candidate, the candidates are
\* processed in descending score order, and the kept ones are returned in
\* that order as logical centres
CollectedAndOrdered ==
    /\ {raw_matches[i] : i \in 1..Len(raw_matches)}
         = {Candidate(p) : p \in Instances}
    /\ Len(raw_matches) = Cardinality(Instances)
    /\ \A i, j \in 1..Len(raw_matches) :
           i < j => raw_matches[i].score >= raw_matches[j].score
    /\ \A k, l \in 1..Len(filtered) :
           k < l => \E i, j \in 1..Len(raw_matches) :
                       /\ i < j
                       /\ raw_matches[i] = filtered[k]
                       /\ raw_matches[j] = filtered[l]
    /\ found_all = [k \in 1..Len(filtered) |->
                       <<filtered[k].cx \div RETINA_SCALE,
                         filtered[k].cy \div RETINA_SCALE>>]

\* C13 (as stated): every location scoring >= confidence is collected, the
\* candidates are processed in descending score order, and a candidate is
\* kept if and only if it is farther than min_distance (times the scale)
\* from every candidate kept before it.
C13_KeptIffFarther ==
    AllReturned =>
      /\ CollectedAndOrdered
      /\ \A i \in 1..Len(raw_matches) :
           Kept(i) <=>
             \A j \in 1..(i - 1) :
                Kept(j) =>
                  (raw_matches[i].cx - raw_matches[j].cx)
                      * (raw_matches[i].cx - raw_matches[j].cx)
                  + (raw_matches[i].cy - raw_matches[j].cy)
                      * (raw_matches[i].cy - raw_matches[j].cy)
                    > MinDistPx * MinDistPx

\* C13 (amended): as stated, except that a candidate is kept if and only
\* if, for every candidate kept before it, its horizontal or its vertical
\* offset from that candidate is at least min_distance times the scale.
C13_KeptIffAxisApart ==
    AllReturned =>
      /\ CollectedAndOrdered
      /\ \A i \in 1..Len(raw_matches) :
           Kept(i) <=>
             \A j \in 1..(i - 1) :
                Kept(j) =>
                  \/ Abs(raw_matches[i].cx - raw_matches[j].cx) >= MinDistPx
                  \/ Abs(raw_matches[i].cy - raw_matches[j].cy) >= MinDistPx

\* the second candidate was suppressed and the third kept although it is
\* close to the suppressed one
C13_KeptNextToSuppressed ==
    /\ AllReturned
    /\ Len(raw_matches) = 3
    /\ Kept(1) /\ ~Kept(2) /\ Kept(3)
    /\ Abs(raw_matches[3].cx - raw_matches[2].cx) < MinDistPx
    /\ Abs(raw_matches[3].cy - raw_matches[2].cy) < MinDistPx

\* candidate a comes before candidate b in row-major scan order
ScanBefore(a, b) == a.cy < b.cy \/ (a.cy = b.cy /\ a.cx < b.cx)

FindReturned == find_calls > 0 /\ find_raised = None

\* C15: find_element returns a match if and only if the global maximum of
\* the scores is >= confidence; the match is the logical centre
\* ((x + t_w div 2) div scale, (y + t_h div 2) div scale) of a location
\* <<x, y>> of the maximum; otherwise the result is None.
C15_BestMatch ==
    FindReturned =>
      /\ found # {} <=> \E p \in DOMAIN scores : scores[p] >= confidence
      /\ found # {} =>
           \E p \in DOMAIN scores :
              /\ \A q \in DOMAIN scores : scores[q] <= scores[p]
              /\ found = {<<(p[1] + template.w \div 2) \div RETINA_SCALE,
                            (p[2] + template.h \div 2) \div RETINA_SCALE>>}

\* a maximum that just reaches the confidence was returned as a match
C15_MatchAtThreshold ==
    /\ FindReturned
    /\ found # {}
    /\ \A p \in DOMAIN scores : scores[p] <= confidence
    /\ template.w <= frame.w /\ template.h <= frame.h

C17_OversizeTemplateNoMatch ==
    (template.w > frame.w \/ template.h > frame.h) =>
      /\ find_calls > 0 => found = {} /\ find_raised = None
      /\ all_calls > 0 => found_all = <<>> /\ all_raised = None


(***************************************************************************)
(* Properties of the polling waits, checked under SpecWait.                *)
(***************************************************************************)

\* C18 (as stated): the deadline is checked at each poll, the first match
\* of a poll is returned, None is returned once the timeout has elapsed
\* without a match, and whatever the polls do (no match, capture failure,
\* unreadable template) the caller gets a position or None, never an
\* exception.
C18_NeverAnException ==
    /\ [](wait_pc # "raised" /\ wait_raised = None)
    /\ [][/\ (wait_pc = "check" /\ wait_pc' = "poll") =>
                wait_now - wait_start < wait_timeout
          /\ (wait_pc = "check" /\ wait_pc' = "returned") =>
                wait_result' = {} /\ wait_now - wait_start >= wait_timeout
          /\ (wait_pc = "poll" /\ wait_pc' = "returned") => wait_result' # {}
         ]_vars

\* C18 (amended): the deadline is checked before each poll; a poll that
\* finds a match returns it at once (for wait_for_any_element the first
\* matching template in dict order), None is returned at the first deadline
\* check at which the timeout has elapsed, and a timeout never produces an
\* exception; an exception raised inside a poll (capture failure,
\* unreadable template) propagates to the caller.
C18_WaitDeadline ==
    [][/\ (wait_pc = "check" /\ wait_pc' = "poll") =>
             wait_now - wait_start < wait_timeout
       /\ (wait_pc = "check" /\ wait_pc' # wait_pc /\ wait_pc' # "poll") =>
             /\ wait_pc' = "returned"
             /\ wait_result' = {}
             /\ wait_raised' = None
             /\ wait_now - wait_start >= wait_timeout
       /\ (wait_pc = "poll" /\ wait_pc' = "returned") =>
             /\ last_poll'.capture = "ok"
             /\ \E i \in DOMAIN last_poll'.finds :
                   /\ last_poll'.finds[i] = "match"
                   /\ \A j \in DOMAIN last_poll'.finds :
                         j < i => last_poll'.finds[j] = "none"
                   /\ wait_result' =
                         IF wait_kind = "wait_for_element"
                           THEN {MatchPos}
                           ELSE {<<TemplateNames[i], MatchPos>>}
       /\ (wait_pc = "poll" /\ wait_pc' = "sleep") =>
             /\ last_poll'.capture = "ok"
             /\ \A i \in DOMAIN last_poll'.finds : last_poll'.finds[i] = "none"
       /\ wait_pc' = "raised" =>
             \/ wait_pc = "raised"
             \/ /\ wait_pc = "poll"
                /\ \/ last_poll'.capture # "ok" /\ wait_raised' = last_poll'.capture
                   \/ \E i \in DOMAIN last_poll'.finds :
                         /\ last_poll'.finds[i] \notin {"none", "match"}
                         /\ wait_raised' = last_poll'.finds[i]
      ]_vars

\* the wait has timed out after at least one poll without a match
C18_TimedOutAfterPolling ==
    /\ wait_pc = "returned"
    /\ wait_result = {}
    /\ wait_timeout > 0
    /\ last_poll # <<>>
    /\ wait_now - wait_start >= wait_timeout

(***************************************************************************)
(* Properties of the numeric readers, checked under SpecNum.               *)
(***************************************************************************)

RECURSIVE SumOf(_, _)
SumOf(S, f) ==
    IF S = {} THEN 0
    ELSE LET i == CHOOSE j \in S : TRUE IN f[i] + SumOf(S \ {i}, f)

\* The number formed by the characters of text that count as digits under
\* val (a function from characters to digit values) and by its decimal
\* point, every other character left out, times 10^FracDigits.
NumberFormed(text, val) ==
    LET digit_at == {i \in 1..Len(text) : text[i] \in DOMAIN val}
        dots == {i \in 1..Len(text) : text[i] = "."}
        decimals == Cardinality({i \in digit_at : \E d \in dots : d < i})
        place(i) == Cardinality({j \in digit_at : j > i})
    IN  SumOf(digit_at,
              [i \in digit_at |->
                  val[text[i]] * Pow10(FracDigits + place(i) - decimals)])

PlainDigits == [c \in Digits |-> DigitVal(c)]

\* the digits together with the characters the correction table maps to one
CorrectedDigits ==
    [c \in Digits \cup DOMAIN OCR_CORRECTIONS |-> DigitVal(Corrected(c))]

\* C19: read_number drops currency symbols, thousands separators and
\* spaces, keeps the digits and the decimal point and returns the number
\* they form ("$1,234.56" gives 1234.56); it returns None exactly when no
\* digit is left or what is left does not parse (more than one point).
C19_ReadNumber ==
    num_path = "read_number" =>
      /\ num_raised = None
      /\ num_result = {} <=>
           \/ ~\E i \in 1..Len(num_text) : num_text[i] \in Digits
           \/ Cardinality({i \in 1..Len(num_text) : num_text[i] = "."}) > 1
      /\ num_result # {} => num_result = {NumberFormed(num_text, PlainDigits)}
      /\ num_text = <<"$", "1", ",", "2", "3", "4", ".", "5", "6">> =>
           num_result = {123456 * Pow10(FracDigits - 2)}

\* read_number has returned 1234.56 for "$1,234.56"
C19_DocumentedExample ==
    /\ num_path = "read_number"
    /\ num_text = <<"$", "1", ",", "2", "3", "4", ".", "5", "6">>
    /\ num_result = {123456 * Pow10(FracDigits - 2)}

\* C20: on every numeric read path the correction table is applied
\* character by character before parsing: a character with a table entry
\* counts as its digit, so read_number returns the number formed by the
\* corrected characters ("O12" gives 12) and the hand totals are read from
\* the corrected text without an exception.
C20_CorrectionsOnEveryPath ==
    /\ num_raised = None
    /\ (num_path = "read_number"
          /\ Cardinality({i \in 1..Len(num_text) : num_text[i] = "."}) <= 1
          /\ \E i \in 1..Len(num_text) : num_text[i] \in DOMAIN CorrectedDigits)
         => num_result = {NumberFormed(num_text, CorrectedDigits)}

\* the text has the form low/high with two integer parts
SoftForm(text) ==
    /\ Len(SplitSlash(text)) = 2
    /\ ~IntFails(SplitSlash(text)[1])
    /\ ~IntFails(SplitSlash(text)[2])

\* C21: reading the player total gives (max(low, high), True) for a text
\* low/high with two integer parts and (n, False) for a plain integer n
\* ("11/21" gives (21, True)); a text that does not parse gives None, and
\* no call ends in an exception.
C21_PlayerTotal ==
    num_path = "player_total" =>
      /\ num_raised = None
      /\ SoftForm(num_text) =>
           num_result = {<<Max(IntOfDigits(SplitSlash(num_text)[1]),
                               IntOfDigits(SplitSlash(num_text)[2])), TRUE>>}
      /\ (num_text # <<>> /\ AllDigits(num_text)) =>
           num_result = {<<IntOfDigits(num_text), FALSE>>}
      /\ num_text = <<"1", "1", "/", "2", "1">> => num_result = {<<21, TRUE>>}

(***************************************************************************)
(* Properties of the session log, checked under SpecLog.                   *)
(***************************************************************************)

\* C22 as stated: rounds_played and current_balance change only inside
\* log_round; every other operation of a runner leaves them unchanged.
C22_OnlyInsideLogRound ==
    [][(rounds_played' # rounds_played \/ current_balance' # current_balance)
          => writers' = {"log_round"}]_vars

\* C22: the loop's own operations (starting the log, the reality check,
\* detect_state, error handling) leave rounds_played and current_balance
\* unchanged; rounds_played changes only in log_round or in the increment
\* of _place_bet, current_balance only in log_round or in the balance reads
\* of on_start, on_stop and _step_monitoring.
C22_LoopLeavesCounters ==
    [][/\ last_op' \in LoopOps =>
            /\ rounds_played' = rounds_played
            /\ current_balance' = current_balance
       /\ rounds_played' # rounds_played =>
            writers' \cap {"log_round", "_place_bet"} # {}
       /\ current_balance' # current_balance =>
            writers' \cap {"log_round", "on_start", "on_stop",
                           "_step_monitoring"} # {}]_vars

\* error handling has run in a session that had counted rounds and read a
\* balance
C22_ErrorAfterRounds ==
    /\ last_op = "on_error"
    /\ rounds_played > 0
    /\ current_balance # {}

C24_RoundTrip ==
    pt_phys = <<>> =>
      \A i \in 1..2 : Abs(pt_cur[i] - pt[i]) <= 1

\* a point with two different coordinates has made two round trips at an
\* odd scale
C24_TwoTripsAtScaleThree ==
    /\ det_scale = {3}
    /\ trips = 2
    /\ pt = <<3, 1>>
    /\ pt_phys = <<>>

\* C25: scale detection returns max(floor(physical width / logical width),
\* 1); when a query fails or the logical width is 0 it returns the default
\* 2 and does not raise; the scale in use is an integer >= 1.
C25_ScaleDetection ==
    det_scale # {} =>
      LET screen_w == det_input[1]
          pil_w == det_input[2]
          failure == det_input[3]
          floor_ratio == CHOOSE k \in 0..pil_w :
                             k * screen_w <= pil_w /\ pil_w < (k + 1) * screen_w
      IN  /\ ScaleInUse \in Nat
          /\ ScaleInUse >= 1
          /\ (failure # None \/ screen_w = 0) => ScaleInUse = 2
          /\ (failure = None /\ screen_w > 0) =>
               ScaleInUse = IF floor_ratio >= 1 THEN floor_ratio ELSE 1

\* the detection has met a logical width of 0 and returned the default
C25_ZeroWidthFallsBack ==
    /\ det_scale = {2}
    /\ det_input[1] = 0
    /\ det_input[3] = None

(***************************************************************************)
(* Properties of the capture, checked under SpecMatch.                     *)
(***************************************************************************)

\* C26: a region is validated against the capture bounds at logical scale
\* before it is cropped: the crop box of take_screenshot always comes from
\* a region with a non-negative origin, w > 0 and h > 0 that lies within
\* the logical size of the screen.
C26_RegionsValidated ==
    pil_region # <<>> =>
      LET x == pil_region[1] \div RETINA_SCALE
          y == pil_region[2] \div RETINA_SCALE
          right == pil_region[3] \div RETINA_SCALE
          bottom == pil_region[4] \div RETINA_SCALE
      IN  /\ x >= 0 /\ y >= 0
          /\ right > x /\ bottom > y
          /\ right <= frame.w \div RETINA_SCALE
          /\ bottom <= frame.h \div RETINA_SCALE

(***************************************************************************)
(* Properties of the configuration lookups, checked under SpecCfg.         *)
(***************************************************************************)

\* C27: a lookup of an element key that is missing from the configuration
\* raises an error to its caller at that lookup, and the loop does not
\* start another detect_state with the key treated as "not detected".
C27_MissingKeySurfaces ==
    dw_warned # {} =>
      /\ dw_error # None
      /\ dw_polls_after = 0

(***************************************************************************)
(* Template images under the loop, checked under Spec.                     *)
(***************************************************************************)

\* C28: when a detection inside detect_state meets a missing or corrupt
\* template image mid-run (FileNotFoundError of _load_template), only that
\* detection is skipped: detect_state still returns and the step of the
\* same iteration runs.
C28_TemplateLoadError ==
    [][(pc = "detect_state" /\ exc' = "FileNotFoundError"
          /\ raised_in' = "detect_state")
         => pc' = "step"]_vars

(***************************************************************************)
(* The preprocessing of read_text, checked under SpecRead.                 *)
(***************************************************************************)

\* C29: read_text hands Tesseract the image preprocess_for_ocr makes of its
\* crop: grayscale, then exactly one of {Otsu threshold, Gaussian blur,
\* nothing}, then the inversion of a dark image, then the upscale by 2,
\* then the 10 px light border, in that order.
C29_SinglePipeline ==
    ocr_fed # <<>> =>
      /\ ocr_fed = preprocess_for_ocr(ocr_crop, ocr_preprocess, TRUE,
                                      OcrBorder, OcrUpscale)
      /\ ocr_fed.steps =
           <<"gray">>
           \o (CASE ocr_preprocess = "thresh" -> <<"otsu">>
                 [] ocr_preprocess = "blur" -> <<"blur">>
                 [] OTHER -> <<>>)
           \o (IF ocr_crop.dark THEN <<"invert">> ELSE <<>>)
           \o <<"resize", "border">>
      /\ ocr_fed.w = 2 * ocr_crop.w + 20
      /\ ocr_fed.h = 2 * ocr_crop.h + 20
      /\ ~ocr_fed.dark

(***************************************************************************)
(* Interactive sessions, checked under SpecMain.                           *)
(***************************************************************************)

\* C30: when the duration prompt is left blank the session has no time
\* limit: the loop leaves its boundary check for on_stop only after a
\* cancellation has cleared running, never because the session expired.
C30_BlankMeansNoLimit ==
    [][(prompt_answer = {<<>>} /\ pc = "loop_head" /\ pc' = "on_stop")
         => ~running]_vars

(***************************************************************************)
(* C34: recording a snapshot for one label, rotation included, deletes no  *)
(* snapshot file of a different label, also when one label is a prefix of  *)
(* the other ("player" and "player_total"): in a step that records for     *)
(* label l every file of another label stays in the directory.             *)
(***************************************************************************)
C34_OtherLabelsUntouched ==
    [][\A l \in Labels :
          n_written'[l] = n_written[l] + 1
            => \A f \in files : f.label # l => f \in files']_vars

(***************************************************************************)
(* C31: _check_reality_check returns True only when the popup was detected *)
(* and a dismissing click was issued: whenever the last call returned True *)
(* it made exactly one click.                                              *)
(***************************************************************************)
C31_TrueMeansOneClick ==
    rc_ret = {TRUE} => rc_clicks = 1

(***************************************************************************)
(* C32: in CrazyTimeSimpleGame a bet click puts the runner in COOLDOWN,    *)
(* and detect_state answers COOLDOWN without looking at the screen until   *)
(* cooldown_time seconds have passed: a bet click comes no sooner than     *)
(* cooldown_time seconds after the bet click before it.                    *)
(***************************************************************************)
C32_ClicksSeparated ==
    [][\A t \in last_bet_click :
          last_bet_click' # last_bet_click
            => simple_now - t >= cooldown_time]_vars

(***************************************************************************)
(* C33: click_region_random clicks a point within the region it is given:  *)
(* x <= px < x + w and y <= py < y + h.                                    *)
(***************************************************************************)
C33_ClickInsideRegion ==
    \A r \in click_region : \A p \in click_point :
        /\ r.x <= p[1] /\ p[1] < r.x + r.w
        /\ r.y <= p[2] /\ p[2] < r.y + r.h

(***************************************************************************)
(* C39: get_action returns hit, stand or double for every player total,    *)
(* dealer upcard and soft flag, and never stand for a hand that cannot     *)
(* bust by taking a card: a hard total of 11 or less, a soft total of 17   *)
(* or less.                                                                *)
(***************************************************************************)
C39_NeverStandsWhenSafe ==
    \A h \in hand : \A a \in action :
        /\ a \in {"hit", "stand", "double"}
        /\ (\/ ~h.is_soft /\ h.player_total <= 11
            \/ h.is_soft /\ h.player_total <= 17) => a # "stand"

(***************************************************************************)
(* C35: in CrazyTimeGame each configured bet segment is clicked at most    *)
(* once within one betting phase (a maximal run of consecutive BETTING     *)
(* detections), also when an exception interrupts the bet placement and    *)
(* the loop retries.                                                       *)
(***************************************************************************)
C35_OneClickPerPhase ==
    \A seg \in Segments : phase_clicks[seg] <= 1

(***************************************************************************)
(* C36: in InfiniteBlackjackGame every time the detected state leaves      *)
(* BETTING, to WAITING or to DECISION, one round is logged: once step has  *)
(* returned, rounds_played is the number of betting phases that ended.     *)
(***************************************************************************)
C36_RoundPerBettingPhase ==
    (bj_pc = "detect" /\ ~bj_raised) => bj_rounds = betting_ended

(***************************************************************************)
(* C37: SlotsGame clicks spin or starts autoplay only when bet_is_set is   *)
(* true, and bet_is_set becomes true only after the on-screen bet amount   *)
(* was read and found equal to target_bet.                                 *)
(***************************************************************************)
C37_BetVerifiedBeforeSpin ==
    [][/\ spins' # spins => bet_is_set
       /\ (~bet_is_set /\ bet_is_set') => bet_matched']_vars

(***************************************************************************)
(* C38: when a SlotsGame session ends with autoplay_active true, teardown  *)
(* cancels the autoplay: a click on the autoplay-stop control was issued   *)
(* and autoplay_active is false when run() returns.                        *)
(***************************************************************************)
C38_AutoplayCancelled ==
    (slot_pc = "returned" /\ ended_active)
        => (stop_clicks = 1 /\ ~autoplay_active)

====
